---- MODULE Spec2Model ----
(***************************************************************************)
(* The order-placement path of the IBKR trading client:                    *)
(*   - the retry decorator (algo_trader/utils/decorators.py),              *)
(*   - IBKRClient.initialize, place_buy_order, place_sell_order,           *)
(*     _place_market_order and _confirm_order                              *)
(*     (algo_trader/clients/ibkr_client.py).                               *)
(* The program is single-threaded; it is modelled as a call stack of       *)
(* frames.  A decorated method is a "wrapper" frame (the closure of        *)
(* retry.wrapper) that pushes the frame of the function it wraps.  A       *)
(* returned value or a raised exception travels between frames in `ret`.   *)
(***************************************************************************)
EXTENDS Integers, Sequences, FiniteSets, TLC

VARIABLES
    stack,       \* call stack, innermost frame last
    ret,         \* value returned / exception raised by the frame just popped
    slept,       \* slept[d]: the time.sleep(wait) calls, in order, of the retry
                 \* loop at stack depth d since that loop was entered (of the
                 \* operation in progress, when the trader runs it)
    cfg,         \* SpecRetry: the decorator arguments of the operation under test
    calls,       \* SpecRetry: outcome of every invocation of the wrapped operation
    ncalls,      \* number of calls the client's user has made so far
    requests,    \* number of gateway requests issued so far, per endpoint
    lastSubmit,  \* response to the latest order-submission POST
    lastConfirm, \* response to the latest reply POST since the latest submission
    rounds,      \* reply POSTs issued since the latest order-submission POST
    lastAuth,    \* response to the latest auth-status GET of the current call
    lastSuppress, \* response to the latest suppression POST of the current call
    faultsLeft,  \* failed answers the environment may still give in this run
                 \* (Unlimited: as many as it likes)
    before,      \* at the latest call by the client's user: the request
                 \* counters at that moment and what earlier calls returned
    client_account_id,  \* IBKRClient._account_id
    trader_account_id,  \* Trader.account_id
    markers,     \* the BEGIN / END lines execute_trade has logged, in order
    notified,    \* the notifications handed to NotificationService, in order
    deliveryFailed,  \* an email or Telegram delivery of the run has failed
    lastRead,    \* the GET of the read operation in progress: the operation
                 \* and the response, until the trader takes the result
    run,         \* the locals execute_trade and its handlers have assigned in
                 \* the current run, by name
    records      \* the rows appended to the order-history workbook, in order

vars == <<stack, ret, slept, cfg, calls, ncalls, requests, lastSubmit,
          lastConfirm, rounds, lastAuth, lastSuppress, faultsLeft, before,
          client_account_id, trader_account_id, markers, notified,
          deliveryFailed, lastRead, run, records>>

gatewayVars == <<ncalls, requests, lastSubmit, lastConfirm, rounds, lastAuth,
                 lastSuppress>>

envVars == <<faultsLeft, before>>

traderVars == <<client_account_id, trader_account_id, markers, notified,
                deliveryFailed, lastRead,
                run, records>>

----------------------------------------------------------------------------
(* Python values *)

None == "None"
Absent == "Absent"          \* a key that is not in a JSON object

\* dict.get(key) / dict.get(key, default)
Get(v, default) == IF v = Absent THEN default ELSE v

\* truth value of a JSON scalar used in `if x:`
Truthy(v) == v \notin {None, Absent, ""}

----------------------------------------------------------------------------
(* utils/config.py *)

MAX_RETRY_ATTEMPTS == 3
RETRY_DELAY == 2
RETRY_BACKOFF == 2

----------------------------------------------------------------------------
(* Bounds of the model *)

MaxAttempts == 4      \* SpecRetry: max_attempts ranges over 1..MaxAttempts
MaxDelay == 2         \* SpecRetry: delay ranges over 0..MaxDelay
MaxBackoff == 2       \* SpecRetry: backoff ranges over 1..MaxBackoff
MaxCalls == 2         \* SpecInit: initialize() is called up to MaxCalls times
MaxFaults == 3        \* SpecTrade: at most MaxFaults requests of a run fail

----------------------------------------------------------------------------
(* Exceptions.  Every exception class used is a subclass of Exception.     *)

Bases(type) ==
    CASE type = "OrderRejectionError" -> {"OrderRejectionError", "Exception"}
      [] type = "HTTPError"           -> {"HTTPError", "Exception"}
      [] type = "TransientError"      -> {"TransientError", "Exception"}
      [] type = "FatalError"          -> {"FatalError", "Exception"}
      [] type = "FatalSubError"       -> {"FatalSubError", "FatalError", "Exception"}
      [] OTHER                        -> {"Exception"}

isinstance(e, exc_type) == exc_type \in Bases(e.type)

NoRet == [kind |-> "none"]
Value(v) == [kind |-> "value", val |-> v]
Raised(e) == [kind |-> "exc", exc |-> e]

----------------------------------------------------------------------------
(* The gateway.  A request either fails in transport (the connection, or   *)
(* response.raise_for_status()) or is answered with a JSON document.       *)

NoResponse == [shape |-> "none"]                 \* no request made yet
TransportFailure == [shape |-> "transport_error"]

\* requests raises an exception that is not an OrderRejectionError
TransportError == [type |-> "HTTPError"]

----------------------------------------------------------------------------
(* Call stack *)

Running == stack # <<>>
Done == stack = <<>>
Top == stack[Len(stack)]
Pop == SubSeq(stack, 1, Len(stack) - 1)
Push(f) == Append(stack, f)
ReplaceTop(f) == [stack EXCEPT ![Len(stack)] = f]
At(fn, pc) == Running /\ Top.fn = fn /\ Top.pc = pc

\* the frame of a function that has just been called
Frame(fn, args) == [fn |-> fn, pc |-> "start", args |-> args]

----------------------------------------------------------------------------
(* utils/decorators.py: retry(max_attempts, delay, backoff,                *)
(* no_retry_exceptions).  A wrapper frame holds the decorator arguments    *)
(* and the locals `attempts` and `wait` of retry.wrapper.                  *)

Wrapper(func, args, max_attempts, delay, backoff, no_retry_exceptions) ==
    [fn |-> "wrapper", pc |-> "loop", func |-> func, args |-> args,
     max_attempts |-> max_attempts, backoff |-> backoff,
     no_retry_exceptions |-> no_retry_exceptions,
     attempts |-> 0, wait |-> delay]

\* (a plausible slip: an off-by-one in the loop bound)
LoopContinuesInclusive(attempts, max_attempts) == attempts <= max_attempts

\* while attempts < max_attempts
LoopContinues(attempts, max_attempts) == attempts < max_attempts

\* (a plausible slip: the exact class is compared, subclasses are retried)
NotRetriedExactType(e, no_retry_exceptions) == e.type \in no_retry_exceptions

\* any(isinstance(e, exc_type) for exc_type in no_retry_exceptions)
NotRetried(e, no_retry_exceptions) ==
    \E exc_type \in no_retry_exceptions : isinstance(e, exc_type)

\* (a plausible slip: the sleep is not guarded, so it follows every failure)
SleepsAfterEveryFailure(attempts, max_attempts) == TRUE

\* if attempts < max_attempts: time.sleep(wait)   (attempts already incremented)
SleepsBeforeRetry(attempts, max_attempts) == attempts < max_attempts

\* (a plausible slip: linear instead of exponential backoff)
NextWaitLinear(wait, backoff) == wait + backoff

\* wait *= backoff
NextWait(wait, backoff) == wait * backoff

\* (a plausible slip: without functools.wraps the name is the closure's)
RetriesExhaustedUnwrapped(func, max_attempts) ==
    [type |-> "Exception",
     message |-> <<"wrapper", "failed after", max_attempts, "retries">>,
     cause |-> None]

\* raise Exception(f"{func.__name__} failed after {max_attempts} retries")
\* It is raised after the except block has ended, so Python chains nothing to
\* it: __cause__ and __context__ are None.
RetriesExhausted(func, max_attempts) ==
    [type |-> "Exception",
     message |-> <<func, "failed after", max_attempts, "retries">>,
     cause |-> None]

\* loop head: call the wrapped function, or leave the loop and raise
WrapperLoop ==
    /\ Running /\ Top.fn = "wrapper" /\ ret.kind = "none"
    /\ IF LoopContinues(Top.attempts, Top.max_attempts)
       THEN /\ stack' = Push(Frame(Top.func, Top.args))
            /\ ret' = ret
       ELSE /\ stack' = Pop
            /\ ret' = Raised(RetriesExhausted(Top.func, Top.max_attempts))
    /\ slept' = IF Top.attempts = 0   \* the loop has just been entered
                THEN (Len(stack) :> <<>>) @@ slept
                ELSE slept
    /\ UNCHANGED <<cfg, calls, gatewayVars, envVars, traderVars>>

\* return func(*args, **kwargs)
WrapperReturn ==
    /\ Running /\ Top.fn = "wrapper" /\ ret.kind = "value"
    /\ stack' = Pop
    /\ UNCHANGED <<ret, slept, cfg, calls, gatewayVars, envVars, traderVars>>

\* except Exception as e: ...
WrapperExcept ==
    /\ Running /\ Top.fn = "wrapper" /\ ret.kind = "exc"
    /\ IF NotRetried(ret.exc, Top.no_retry_exceptions)
       THEN /\ stack' = Pop
            /\ UNCHANGED <<ret, slept>>
       ELSE LET attempts == Top.attempts + 1 IN
            /\ ret' = NoRet
            /\ IF SleepsBeforeRetry(attempts, Top.max_attempts)
               THEN /\ slept' = [slept EXCEPT ![Len(stack)] = Append(@, Top.wait)]
                    /\ stack' = ReplaceTop([Top EXCEPT
                                   !.attempts = attempts,
                                   !.wait = NextWait(Top.wait, Top.backoff)])
               ELSE /\ slept' = slept
                    /\ stack' = ReplaceTop([Top EXCEPT !.attempts = attempts])
    /\ UNCHANGED <<cfg, calls, gatewayVars, envVars, traderVars>>

----------------------------------------------------------------------------
(* SpecRetry: the decorator around an arbitrary operation `op`, for every  *)
(* decorator argument within the bounds.  Each invocation of `op` returns  *)
(* a value or raises an exception of one of three classes.                 *)

OpErrors == {"TransientError", "FatalError", "FatalSubError"}

\* one invocation of the wrapped operation
OpInvoke ==
    /\ At("op", "start")
    /\ ret.kind = "none"
    /\ \E out \in {Value("v")} \cup
                  {Raised([type |-> t, id |-> Len(calls) + 1]) : t \in OpErrors} :
          /\ calls' = Append(calls, out)
          /\ ret' = out
    /\ stack' = Pop
    /\ UNCHANGED <<slept, cfg, gatewayVars, envVars, traderVars>>

\* no read operation is in progress
NoRead == [op |-> "none", data |-> NoResponse]

\* the environment under no fault bound
Unlimited == -1

\* a request the environment answers with a failure uses up one of the
\* failures it may still give
SpendFault(failed) ==
    /\ failed => faultsLeft # 0
    /\ faultsLeft' = IF failed /\ faultsLeft > 0 THEN faultsLeft - 1 ELSE faultsLeft

NoGateway ==
    /\ ncalls = 1
    /\ requests = [submit |-> 0, confirm |-> 0, auth |-> 0, suppress |-> 0,
                   accounts |-> 0]
    /\ lastSubmit = NoResponse
    /\ lastConfirm = NoResponse
    /\ rounds = 0
    /\ lastAuth = NoResponse
    /\ lastSuppress = NoResponse
    /\ faultsLeft = Unlimited
    /\ client_account_id = None
    /\ trader_account_id = ""
    /\ markers = <<>>
    /\ notified = <<>>
    /\ deliveryFailed = FALSE
    /\ lastRead = NoRead
    /\ run = [started |-> FALSE]
    /\ records = <<>>

InitRetry ==
    /\ cfg \in [max_attempts : 1..MaxAttempts, delay : 0..MaxDelay,
                backoff : 1..MaxBackoff,
                no_retry_exceptions : {{}, {"FatalError"}}]
    /\ stack = <<Wrapper("op", <<>>, cfg.max_attempts, cfg.delay, cfg.backoff,
                         cfg.no_retry_exceptions)>>
    /\ ret = NoRet
    /\ slept = <<>>
    /\ calls = <<>>
    /\ NoGateway
    /\ before = [ok |-> FALSE, requests |-> requests]

NextRetry == WrapperLoop \/ WrapperReturn \/ WrapperExcept \/ OpInvoke

SpecRetry == InitRetry /\ [][NextRetry]_vars

----------------------------------------------------------------------------
(* clients/ibkr_client.py: order placement *)

\* the "cqe" block of a rejection
CqeVals ==
    { [tag |-> "absent"],                        \* no "cqe" key
      [tag |-> "empty"],                         \* "cqe": {}
      [tag |-> "no_post_payload"],               \* "cqe": {"x": ...}
      [tag |-> "post_payload", rejections |-> [tag |-> "absent"]],
      [tag |-> "post_payload", rejections |-> [tag |-> "list", items |-> <<>>]],
      [tag |-> "post_payload",
       rejections |-> [tag |-> "list", items |-> <<"reason1", "reason2">>]] }

\* warning codes the gateway attaches to a confirmation request:
\* none, one of the suppressed codes, a suppressed and an unknown one
WarningSets == { {}, {"o163"}, {"o163", "o9999"} }

\* A JSON answer.  shape "dict": an object with the fields error, cqe,
\* order_id, id.  shape "list": a list of n elements; order_id, id and
\* messageIds are the fields of element 0.
Json(shape, n, error, cqe, order_id, id, messageIds) ==
    [shape |-> shape, n |-> n, error |-> error, cqe |-> cqe,
     order_id |-> order_id, id |-> id, messageIds |-> messageIds]

RejectionResponses ==
    { Json("dict", 0, "order rejected", c, Absent, Absent, {}) : c \in CqeVals }
    \cup { Json("dict", 0, "order rejected", [tag |-> "absent"], "o1", "c1", {}) }

SubmitResponses ==
    RejectionResponses
    \cup { Json("dict", 0, Absent, [tag |-> "absent"], o, i, {}) :
             o \in {Absent, "o1"}, i \in {Absent, "c1"} }
    \cup { Json("list", 0, Absent, [tag |-> "absent"], Absent, Absent, {}) }
    \cup { Json("list", 1, Absent, [tag |-> "absent"], o, i, {}) :
             o \in {Absent, "", "o1"}, i \in {Absent, ""} }
    \cup { Json("list", 1, Absent, [tag |-> "absent"], o, "c1", w) :
             o \in {Absent, "", "o1"}, w \in WarningSets }

ConfirmResponses ==
    RejectionResponses
    \cup { Json("dict", 0, Absent, [tag |-> "absent"], o, Absent, {}) :
             o \in {Absent, None, "", "o2"} }
    \cup { Json("list", 0, Absent, [tag |-> "absent"], Absent, Absent, {}) }
    \cup { Json("list", 1, Absent, [tag |-> "absent"], o, i, {}) :
             o \in {Absent, "", "o2"}, i \in {Absent, "c2"} }

\* self.suppress_message_ids
suppress_message_ids ==
    {"o163", "o354", "o382", "o383", "o403", "o451", "o10151", "o10164", "o10223"}

\* (a plausible slip: the decorator is applied without no_retry_exceptions)
NoRetryExceptionsOmitted(func) == {}

\* (a variant in which no decorated method retries a plain Exception)
NoRetryExceptionsEvery(func) == {"Exception"}

\* the no_retry_exceptions argument of the @retry line above each method
NoRetryExceptions(func) ==
    IF func \in {"place_sell_order", "place_buy_order",
                 "_place_market_order", "_confirm_order"}
    THEN {"OrderRejectionError"}
    ELSE {}

\* a call of a method decorated with
\* @retry(MAX_RETRY_ATTEMPTS, RETRY_DELAY, RETRY_BACKOFF, ...)
Decorated(func, args) ==
    Wrapper(func, args, MAX_RETRY_ATTEMPTS, RETRY_DELAY, RETRY_BACKOFF,
            NoRetryExceptions(func))

\* the caller's frame while the callee runs
Calling(callee) == Append(ReplaceTop([Top EXCEPT !.pc = "call"]), callee)

\* isinstance(result, dict) and "error" in result
IsRejection(result) == result.shape = "dict" /\ result.error # Absent

\* (a plausible slip: the top-level error message is always used)
RejectionErrorTopLevel(result) ==
    [type |-> "OrderRejectionError",
     message |-> result.error,
     rejection_details |-> IF result.cqe.tag = "absent" THEN [tag |-> "empty"]
                           ELSE result.cqe]

\* the OrderRejectionError raised for a rejection: the first entry of
\* cqe.post_payload.rejections when there is one, else the error message
RejectionError(result) ==
    LET cqe == result.cqe
        \* result.get("cqe", {}); OrderRejectionError keeps `details or {}`
        rejection_details == IF cqe.tag = "absent" THEN [tag |-> "empty"] ELSE cqe
        \* rejection_details and "post_payload" in rejection_details
        has_payload == cqe.tag = "post_payload"
        \* rejection_details["post_payload"].get("rejections", [])
        rejections == IF has_payload /\ cqe.rejections.tag = "list"
                      THEN cqe.rejections.items ELSE <<>>
    IN [type |-> "OrderRejectionError",
        message |-> IF rejections # <<>> THEN rejections[1] ELSE result.error,
        rejection_details |-> rejection_details]

\* isinstance(result, list) and len(result) > 0
NonEmptyList(result) == result.shape = "list" /\ result.n > 0

\* (a plausible slip: the field names "order_id" and "id" are confused)
InitialOrderIdFromId(result) ==
    IF result.shape = "list" /\ result.n > 0 THEN Get(result.id, None) ELSE None

\* order_id = first_result.get("order_id"), None unless a non-empty list
InitialOrderId(result) ==
    IF NonEmptyList(result) THEN Get(result.order_id, None) ELSE None

\* confirm_id = first_result.get("id")
ConfirmId(result) ==
    IF NonEmptyList(result) THEN Get(result.id, None) ELSE None

\* (a variant that acknowledges only warning codes of the suppression set)
NeedsConfirmationKnownCodes(result) ==
    /\ Truthy(ConfirmId(result))
    /\ result.messageIds \subseteq suppress_message_ids

\* if confirm_id:   (the warning codes of the request are not looked at)
NeedsConfirmation(result) == Truthy(ConfirmId(result))

\* (a plausible slip: the order id is always taken from the confirmation)
FinalOrderIdFromConfirmation(order_id, confirmation_order_id) ==
    confirmation_order_id

\* (a plausible slip: the confirmation's order id overrides the initial one)
FinalOrderIdConfirmationFirst(order_id, confirmation_order_id) ==
    IF confirmation_order_id # None THEN confirmation_order_id ELSE order_id

\* if order_id is None and confirmation_order_id is not None: order_id = ...
FinalOrderId(order_id, confirmation_order_id) ==
    IF order_id = None /\ confirmation_order_id # None
    THEN confirmation_order_id
    ELSE order_id

\* order id extracted from a confirmation response (list or object)
ConfirmationOrderId(result) ==
    IF NonEmptyList(result) THEN Get(result.order_id, None)
    ELSE IF result.shape = "dict" THEN Get(result.order_id, None)
    ELSE None

SellPayload(conid, quantity) ==
    [conid |-> conid, secType |-> "STK", orderType |-> "MKT", side |-> "SELL",
     quantity |-> quantity, tif |-> "DAY", exchange |-> "SMART", currency |-> "USD"]

\* (a plausible slip: the buy payload carries a share quantity as well)
BuyPayloadWithQuantity(conid, cash_quantity) ==
    [conid |-> conid, secType |-> "STK", orderType |-> "MKT", side |-> "BUY",
     cashQty |-> cash_quantity, quantity |-> 0, tif |-> "DAY",
     exchange |-> "SMART", currency |-> "USD"]

BuyPayload(conid, cash_quantity) ==
    [conid |-> conid, secType |-> "STK", orderType |-> "MKT", side |-> "BUY",
     cashQty |-> cash_quantity, tif |-> "DAY", exchange |-> "SMART", currency |-> "USD"]

\* IBKRClient.place_sell_order (the decorated body)
place_sell_order ==
    /\ Running /\ Top.fn = "place_sell_order"
    /\ \/ /\ Top.pc = "start" /\ ret.kind = "none"
          /\ stack' = Calling(Decorated("_place_market_order",
                         [account_id |-> Top.args.account_id,
                          payload |-> <<SellPayload(Top.args.conid, Top.args.quantity)>>]))
          /\ ret' = ret
       \/ /\ Top.pc = "call" /\ ret.kind # "none"
          /\ stack' = Pop
          /\ ret' = ret
    /\ UNCHANGED <<slept, cfg, calls, gatewayVars, envVars, traderVars>>

\* IBKRClient.place_buy_order (the decorated body)
place_buy_order ==
    /\ Running /\ Top.fn = "place_buy_order"
    /\ \/ /\ Top.pc = "start" /\ ret.kind = "none"
          /\ stack' = Calling(Decorated("_place_market_order",
                         [account_id |-> Top.args.account_id,
                          payload |-> <<BuyPayload(Top.args.conid, Top.args.cash_quantity)>>]))
          /\ ret' = ret
       \/ /\ Top.pc = "call" /\ ret.kind # "none"
          /\ stack' = Pop
          /\ ret' = ret
    /\ UNCHANGED <<slept, cfg, calls, gatewayVars, envVars, traderVars>>

\* IBKRClient._place_market_order: the order-submission POST and the
\* interpretation of its answer
PlaceMarketOrderPost ==
    /\ At("_place_market_order", "start") /\ ret.kind = "none"
    /\ requests' = [requests EXCEPT !.submit = @ + 1]
    /\ lastConfirm' = NoResponse
    /\ rounds' = 0
    /\ \/ /\ lastSubmit' = TransportFailure
          /\ stack' = Pop
          /\ ret' = Raised(TransportError)
       \/ \E result \in SubmitResponses :
          /\ lastSubmit' = result
          /\ IF IsRejection(result)
             THEN /\ stack' = Pop
                  /\ ret' = Raised(RejectionError(result))
             ELSE IF NeedsConfirmation(result)
             THEN /\ stack' = Append(
                        ReplaceTop([fn |-> "_place_market_order", pc |-> "call",
                                    args |-> Top.args,
                                    order_id |-> InitialOrderId(result)]),
                        Decorated("_confirm_order",
                                  [confirm_id |-> ConfirmId(result)]))
                  /\ ret' = ret
             ELSE /\ stack' = Pop
                  /\ ret' = Value(InitialOrderId(result))
    /\ UNCHANGED <<slept, cfg, calls, ncalls, lastAuth, lastSuppress, before,
                   traderVars>>
    /\ SpendFault(ret'.kind = "exc")

\* IBKRClient._place_market_order after self._confirm_order(confirm_id)
PlaceMarketOrderConfirmed ==
    /\ At("_place_market_order", "call") /\ ret.kind # "none"
    /\ stack' = Pop
    /\ ret' = IF ret.kind = "value"
              THEN Value(FinalOrderId(Top.order_id, ret.val))
              ELSE ret
    /\ UNCHANGED <<slept, cfg, calls, gatewayVars, envVars, traderVars>>

\* IBKRClient._confirm_order (the decorated body)
confirm_order ==
    /\ At("_confirm_order", "start") /\ ret.kind = "none"
    /\ requests' = [requests EXCEPT !.confirm = @ + 1]
    /\ rounds' = rounds + 1
    /\ stack' = Pop
    /\ \/ /\ lastConfirm' = TransportFailure
          /\ ret' = Raised(TransportError)
       \/ \E result \in ConfirmResponses :
          /\ lastConfirm' = result
          /\ ret' = IF IsRejection(result)
                    THEN Raised(RejectionError(result))
                    ELSE Value(ConfirmationOrderId(result))
    /\ UNCHANGED <<slept, cfg, calls, ncalls, lastSubmit, lastAuth, lastSuppress,
                   before, traderVars>>
    /\ SpendFault(ret'.kind = "exc")

(* SpecOrder: one call of client.place_buy_order(...) or                   *)
(* client.place_sell_order(...) against a gateway that answers every       *)
(* request in any of the ways above.                                       *)

InitOrder ==
    /\ stack \in { <<Decorated("place_buy_order",
                       [account_id |-> "U1", conid |-> 1, cash_quantity |-> 100])>>,
                   <<Decorated("place_sell_order",
                       [account_id |-> "U1", conid |-> 1, quantity |-> 10])>> }
    /\ ret = NoRet
    /\ slept = <<>>
    /\ cfg = [max_attempts |-> MAX_RETRY_ATTEMPTS, delay |-> RETRY_DELAY,
              backoff |-> RETRY_BACKOFF, no_retry_exceptions |-> {"OrderRejectionError"}]
    /\ calls = <<>>
    /\ NoGateway
    /\ before = [ok |-> FALSE, requests |-> requests]

NextOrder ==
    \/ WrapperLoop \/ WrapperReturn \/ WrapperExcept
    \/ place_sell_order \/ place_buy_order
    \/ PlaceMarketOrderPost \/ PlaceMarketOrderConfirmed \/ confirm_order

SpecOrder == InitOrder /\ [][NextOrder]_vars

----------------------------------------------------------------------------
(* clients/ibkr_client.py: session initialization *)

\* answers to GET /iserver/auth/status: {"authenticated": true | false} or {}
AuthResponses ==
    { [shape |-> "dict", authenticated |-> a] : a \in {"true", "false", Absent} }

\* answers to POST /iserver/questions/suppress: {"status": ...} or {}
SuppressResponses ==
    { [shape |-> "dict", status |-> st] : st \in {"submitted", "failed", Absent} }

\* (a plausible slip: a missing field counts as authenticated)
IsAuthenticatedByDefault(result) == Get(result.authenticated, "true") = "true"

\* is_authenticated = response.json().get("authenticated", False)
IsAuthenticated(result) == Get(result.authenticated, "false") = "true"

\* (a plausible slip: a missing status passes)
IsSubmittedByDefault(result) == Get(result.status, "submitted") = "submitted"

\* status = response.json().get("status");  status != 'submitted' raises
IsSubmitted(result) == Get(result.status, None) = "submitted"

\* (a plausible variant: a session that was initialized once returns at once)
initializeOnce ==
    /\ Running /\ Top.fn = "initialize"
    /\ \/ /\ Top.pc = "start" /\ ret.kind = "none" /\ before.ok
          /\ stack' = Pop
          /\ ret' = Value(None)
       \/ /\ Top.pc = "start" /\ ret.kind = "none" /\ ~before.ok
          /\ stack' = Append(ReplaceTop([Top EXCEPT !.pc = "auth"]),
                             Decorated("_check_auth", <<>>))
          /\ ret' = ret
       \/ /\ Top.pc = "auth" /\ ret.kind = "value"
          /\ stack' = Append(ReplaceTop([Top EXCEPT !.pc = "suppress"]),
                             Decorated("_suppress_order_reply_messages", <<>>))
          /\ ret' = NoRet
       \/ /\ Top.pc = "suppress" /\ ret.kind = "value"
          /\ stack' = Pop
          /\ ret' = Value(None)
       \/ /\ Top.pc \in {"auth", "suppress"} /\ ret.kind = "exc"
          /\ stack' = Pop
          /\ ret' = ret
    /\ UNCHANGED <<slept, cfg, calls, gatewayVars, envVars, traderVars>>

\* (a plausible slip: the except clause logs the error and lacks `raise`)
initializeSwallowing ==
    /\ Running /\ Top.fn = "initialize"
    /\ \/ /\ Top.pc = "start" /\ ret.kind = "none"
          /\ stack' = Append(ReplaceTop([Top EXCEPT !.pc = "auth"]),
                             Decorated("_check_auth", <<>>))
          /\ ret' = ret
       \/ /\ Top.pc = "auth" /\ ret.kind = "value"
          /\ stack' = Append(ReplaceTop([Top EXCEPT !.pc = "suppress"]),
                             Decorated("_suppress_order_reply_messages", <<>>))
          /\ ret' = NoRet
       \/ /\ Top.pc = "suppress" /\ ret.kind = "value"
          /\ stack' = Pop
          /\ ret' = Value(None)
       \/ /\ Top.pc \in {"auth", "suppress"} /\ ret.kind = "exc"
          /\ stack' = Pop
          /\ ret' = Value(None)
    /\ UNCHANGED <<slept, cfg, calls, gatewayVars, envVars, traderVars>>

\* IBKRClient.initialize: _check_auth(), then _suppress_order_reply_messages();
\* an exception of either is logged and re-raised
initialize ==
    /\ Running /\ Top.fn = "initialize"
    /\ \/ /\ Top.pc = "start" /\ ret.kind = "none"
          /\ stack' = Append(ReplaceTop([Top EXCEPT !.pc = "auth"]),
                             Decorated("_check_auth", <<>>))
          /\ ret' = ret
       \/ /\ Top.pc = "auth" /\ ret.kind = "value"
          /\ stack' = Append(ReplaceTop([Top EXCEPT !.pc = "suppress"]),
                             Decorated("_suppress_order_reply_messages", <<>>))
          /\ ret' = NoRet
       \/ /\ Top.pc = "suppress" /\ ret.kind = "value"
          /\ stack' = Pop
          /\ ret' = Value(None)
       \/ /\ Top.pc \in {"auth", "suppress"} /\ ret.kind = "exc"
          /\ stack' = Pop
          /\ ret' = ret
    /\ UNCHANGED <<slept, cfg, calls, gatewayVars, envVars, traderVars>>

\* IBKRClient._check_auth (the decorated body)
check_auth ==
    /\ At("_check_auth", "start") /\ ret.kind = "none"
    /\ requests' = [requests EXCEPT !.auth = @ + 1]
    /\ stack' = Pop
    /\ \/ /\ lastAuth' = TransportFailure
          /\ ret' = Raised(TransportError)
       \/ \E result \in AuthResponses :
          /\ lastAuth' = result
          /\ ret' = IF IsAuthenticated(result)
                    THEN Value(None)
                    ELSE Raised([type |-> "Exception",
                                 message |-> <<"Not authenticated with IBKR Web API">>,
                                 cause |-> None])
    /\ UNCHANGED <<slept, cfg, calls, ncalls, lastSubmit, lastConfirm, rounds,
                   lastSuppress, before, traderVars>>
    /\ SpendFault(ret'.kind = "exc")

\* IBKRClient._suppress_order_reply_messages (the decorated body)
suppress_order_reply_messages ==
    /\ At("_suppress_order_reply_messages", "start") /\ ret.kind = "none"
    /\ requests' = [requests EXCEPT !.suppress = @ + 1]
    /\ stack' = Pop
    /\ \/ /\ lastSuppress' = TransportFailure
          /\ ret' = Raised(TransportError)
       \/ \E result \in SuppressResponses :
          /\ lastSuppress' = result
          /\ ret' = IF IsSubmitted(result)
                    THEN Value(None)
                    ELSE Raised([type |-> "Exception",
                                 message |-> <<"Failed to suppress order reply messages",
                                               result.status>>,
                                 cause |-> None])
    /\ UNCHANGED <<slept, cfg, calls, ncalls, lastSubmit, lastConfirm, rounds,
                   lastAuth, before, traderVars>>
    /\ SpendFault(ret'.kind = "exc")

\* the user of the client calls client.initialize() once more
CallInitialize ==
    /\ Done /\ ncalls < MaxCalls
    /\ ncalls' = ncalls + 1
    /\ stack' = <<Frame("initialize", <<>>)>>
    /\ ret' = NoRet
    /\ lastAuth' = NoResponse
    /\ lastSuppress' = NoResponse
    /\ before' = [ok |-> before.ok \/ ret.kind = "value", requests |-> requests]
    /\ UNCHANGED <<slept, cfg, calls, requests, lastSubmit, lastConfirm, rounds,
                   faultsLeft, traderVars>>

(* SpecInit: client.initialize() called up to MaxCalls times on one client *)

InitInit ==
    /\ stack = <<Frame("initialize", <<>>)>>
    /\ ret = NoRet
    /\ slept = <<>>
    /\ cfg = [max_attempts |-> MAX_RETRY_ATTEMPTS, delay |-> RETRY_DELAY,
              backoff |-> RETRY_BACKOFF, no_retry_exceptions |-> {}]
    /\ calls = <<>>
    /\ NoGateway
    /\ before = [ok |-> FALSE, requests |-> requests]

NextInit ==
    \/ WrapperLoop \/ WrapperReturn \/ WrapperExcept
    \/ initialize \/ check_auth \/ suppress_order_reply_messages
    \/ CallInitialize

SpecInit == InitInit /\ [][NextInit]_vars

----------------------------------------------------------------------------
(* clients/ibkr_client.py: the read operations.  Amounts of money are in   *)
(* cents, positions in shares.                                             *)

\* a field of a JSON object: missing, null, a number or a non-numeric text
FieldAbsent == [tag |-> "absent"]
JsonNull == [tag |-> "null"]
Number(n) == [tag |-> "number", n |-> n]
Text == [tag |-> "text"]

\* data.get(key) is not None
IsNotNone(v) == v.tag \notin {"absent", "null"}

\* a plain Exception raised by the client
Error(message) == [type |-> "Exception", message |-> message, cause |-> None]

\* float(v) / int(v) of a field that is not None
Float(v) == IF v.tag = "number"
            THEN Value(v.n)
            ELSE Raised([type |-> "ValueError", message |-> <<"could not convert">>,
                         cause |-> None])

\* answers to GET /iserver/accounts
AccountLists == { <<>>, <<"U1">>, <<"U1", "U2">>, <<"">>, <<None>> }

AccountsResponses ==
    { [shape |-> "dict", has_accounts |-> FALSE, accounts |-> <<>>] } \cup
    { [shape |-> "dict", has_accounts |-> TRUE, accounts |-> l] : l \in AccountLists }

\* answers to GET /iserver/account/{account_id}/summary
CashValues == {500, 100000}
BalanceValues == {250000}

SummaryResponses ==
    { [shape |-> "dict", availableFunds |-> a, netLiquidationValue |-> n] :
        a \in {FieldAbsent, JsonNull} \cup { Number(c) : c \in CashValues },
        n \in {FieldAbsent, JsonNull} \cup { Number(b) : b \in BalanceValues } }

\* answers to GET /iserver/secdef/search
SearchResults == { [conid |-> c] : c \in {FieldAbsent, JsonNull, Number(1)} }

SearchResponses ==
    { [shape |-> "dict"] } \cup
    { [shape |-> "list", items |-> l] :
        l \in { <<>> } \cup { <<r>> : r \in SearchResults }
                       \cup { <<r, [conid |-> Number(2)]>> : r \in SearchResults } }

\* answers to GET /iserver/marketdata/history: the daily bars under "data";
\* last, mark and close stand for quote fields a document may carry besides
PriceValues == {5000}
QuoteFields == {FieldAbsent} \cup { Number(p) : p \in {4000} }
Bars == { [c |-> v] : v \in {FieldAbsent, JsonNull, Text} \cup { Number(p) : p \in PriceValues } }

BarLists ==
    { <<>> } \cup { <<b>> : b \in Bars } \cup { <<[c |-> Number(4000)], b>> : b \in Bars }

HistoryResponses ==
    { [shape |-> "dict", has_data |-> d[1], data |-> d[2],
       last |-> q[1], mark |-> q[2], close |-> q[3]] :
        d \in { <<FALSE, <<>>>> } \cup { <<TRUE, l>> : l \in BarLists },
        q \in QuoteFields \X QuoteFields \X QuoteFields }

\* answers to GET /portfolio/{account_id}/positions/0
PositionValues == {10, -10}
PositionEntries ==
    { [conid |-> c, position |-> v] :
        c \in {1, 2},
        v \in {FieldAbsent, JsonNull} \cup { Number(q) : q \in PositionValues } }

PositionsResponses ==
    { [shape |-> "dict"] } \cup
    { [shape |-> "list", items |-> l] :
        l \in { <<>> } \cup { <<e>> : e \in PositionEntries }
                       \cup (PositionEntries \X PositionEntries) }

\* the gateway's answer to the GET of a read operation and what the
\* operation makes of it
Answer(response, result) ==
    /\ lastRead' = [op |-> Top.fn, data |-> response]
    /\ ret' = result
    /\ stack' = Pop
    /\ SpendFault(result.kind = "exc")

\* get_account_id after the GET: accounts = data.get("accounts", [])
AccountId(data) ==
    LET accounts == IF data.has_accounts THEN data.accounts ELSE <<>> IN
    IF accounts = <<>>
    THEN Raised(Error(<<"No accounts found in response">>))
    ELSE IF accounts[1] # None /\ accounts[1] # ""
    THEN Value(accounts[1])
    ELSE Raised(Error(<<"Account ID is empty or None">>))

\* (a plausible slip: the cached id is never consulted)
CachedAccountIdIgnored(account_id) == FALSE

\* if self._account_id:
CachedAccountId(account_id) == Truthy(account_id)

\* IBKRClient.get_account_id (the decorated body)
get_account_id ==
    /\ At("get_account_id", "start") /\ ret.kind = "none"
    /\ IF CachedAccountId(client_account_id)
       THEN /\ stack' = Pop
            /\ ret' = Value(client_account_id)
            /\ UNCHANGED <<requests, client_account_id, lastRead, faultsLeft>>
       ELSE /\ requests' = [requests EXCEPT !.accounts = @ + 1]
            /\ \/ /\ Answer(TransportFailure, Raised(TransportError))
                  /\ UNCHANGED client_account_id
               \/ \E data \in AccountsResponses :
                  /\ Answer(data, AccountId(data))
                  /\ client_account_id' =
                        IF data.has_accounts /\ data.accounts # <<>>
                        THEN data.accounts[1]
                        ELSE client_account_id
    /\ UNCHANGED <<slept, cfg, calls, ncalls, lastSubmit, lastConfirm, rounds,
                   lastAuth, lastSuppress, before, trader_account_id, markers,
                   notified, deliveryFailed, run, records>>

\* get_available_cash after the GET
AvailableCash(data) ==
    IF IsNotNone(data.availableFunds)
    THEN Float(data.availableFunds)
    ELSE Raised(Error(<<"Failed to get available cash - 'availableFunds' not found in response">>))

\* IBKRClient.get_available_cash (the decorated body)
get_available_cash ==
    /\ At("get_available_cash", "start") /\ ret.kind = "none"
    /\ \/ Answer(TransportFailure, Raised(TransportError))
       \/ \E data \in SummaryResponses : Answer(data, AvailableCash(data))
    /\ UNCHANGED <<slept, cfg, calls, gatewayVars, before, client_account_id,
                   trader_account_id, markers, notified, deliveryFailed, run, records>>

\* get_account_balance after the GET
AccountBalance(data) ==
    IF IsNotNone(data.netLiquidationValue)
    THEN Float(data.netLiquidationValue)
    ELSE Raised(Error(<<"Failed to get account balance - 'netLiquidationValue' not found in response">>))

\* IBKRClient.get_account_balance (the decorated body)
get_account_balance ==
    /\ At("get_account_balance", "start") /\ ret.kind = "none"
    /\ \/ Answer(TransportFailure, Raised(TransportError))
       \/ \E data \in SummaryResponses : Answer(data, AccountBalance(data))
    /\ UNCHANGED <<slept, cfg, calls, gatewayVars, before, client_account_id,
                   trader_account_id, markers, notified, deliveryFailed, run, records>>

\* get_contract_id after the GET
ContractId(data, symbol) ==
    IF data.shape = "list" /\ Len(data.items) > 0 /\ IsNotNone(data.items[1].conid)
    THEN Float(data.items[1].conid)
    ELSE Raised(Error(<<"Contract ID not found for symbol", symbol>>))

\* IBKRClient.get_contract_id (the decorated body)
get_contract_id ==
    /\ At("get_contract_id", "start") /\ ret.kind = "none"
    /\ \/ Answer(TransportFailure, Raised(TransportError))
       \/ \E data \in SearchResponses : Answer(data, ContractId(data, Top.args.symbol))
    /\ UNCHANGED <<slept, cfg, calls, gatewayVars, before, client_account_id,
                   trader_account_id, markers, notified, deliveryFailed, run, records>>

\* (a plausible variant: the first of last, mark and close that is a number)
PriceFromQuote(data, conid) ==
    IF data.last.tag = "number" THEN Value(data.last.n)
    ELSE IF data.mark.tag = "number" THEN Value(data.mark.n)
    ELSE IF data.close.tag = "number" THEN Value(data.close.n)
    ELSE Raised(Error(<<"Price not found for contract ID", conid>>))

\* get_price after the GET: the close of the last bar of data.get("data", [])
Price(data, conid) ==
    LET bars == IF data.has_data THEN data.data ELSE <<>> IN
    IF Len(bars) > 0 /\ IsNotNone(bars[Len(bars)].c)
    THEN Float(bars[Len(bars)].c)
    ELSE Raised(Error(<<"Price not found for contract ID", conid>>))

\* IBKRClient.get_price (the decorated body)
get_price ==
    /\ At("get_price", "start") /\ ret.kind = "none"
    /\ \/ Answer(TransportFailure, Raised(TransportError))
       \/ \E data \in HistoryResponses : Answer(data, Price(data, Top.args.conid))
    /\ UNCHANGED <<slept, cfg, calls, gatewayVars, before, client_account_id,
                   trader_account_id, markers, notified, deliveryFailed, run, records>>

\* the entries  position.get("conid") == conid  with a position that is not None
RECURSIVE MatchingPositions(_, _)
MatchingPositions(positions, conid) ==
    IF positions = <<>> THEN <<>>
    ELSE LET position == Head(positions)
             rest == MatchingPositions(Tail(positions), conid)
         IN IF position.conid = conid /\ IsNotNone(position.position)
            THEN <<position>> \o rest
            ELSE rest

\* get_position after the GET: the first matching entry, else 0.0
Position(data, conid) ==
    IF data.shape # "list"
    THEN Raised(Error(<<"Unexpected response format for positions">>))
    ELSE LET found == MatchingPositions(data.items, conid) IN
         IF found # <<>> THEN Float(found[1].position) ELSE Value(0)

\* IBKRClient.get_position (the decorated body)
get_position ==
    /\ At("get_position", "start") /\ ret.kind = "none"
    /\ \/ Answer(TransportFailure, Raised(TransportError))
       \/ \E data \in PositionsResponses : Answer(data, Position(data, Top.args.conid))
    /\ UNCHANGED <<slept, cfg, calls, gatewayVars, before, client_account_id,
                   trader_account_id, markers, notified, deliveryFailed, run, records>>

\* the read operations of the client and the arguments they are called with
ReadCalls ==
    { Decorated("get_account_id", <<>>),
      Decorated("get_available_cash", [account_id |-> "U1"]),
      Decorated("get_account_balance", [account_id |-> "U1"]),
      Decorated("get_contract_id", [symbol |-> "TQQQ"]),
      Decorated("get_price", [conid |-> 1]),
      Decorated("get_position", [account_id |-> "U1", conid |-> 1]) }

\* the user of the client calls one more read operation
CallRead ==
    /\ Done /\ ncalls < MaxCalls
    /\ ncalls' = ncalls + 1
    /\ \E call \in ReadCalls : stack' = <<call>>
    /\ ret' = NoRet
    /\ before' = [op |-> (CHOOSE call \in ReadCalls : stack' = <<call>>).func,
                  requests |-> requests,
                  account_id |-> IF before.op = "get_account_id" /\ ret.kind = "value"
                                 THEN ret.val
                                 ELSE before.account_id]
    /\ UNCHANGED <<slept, cfg, calls, requests, lastSubmit, lastConfirm, rounds,
                   lastAuth, lastSuppress, faultsLeft, traderVars>>

(* SpecRead: the read operations called, in any order and up to MaxCalls   *)
(* times, on one client                                                    *)

InitRead ==
    /\ \E call \in ReadCalls :
          /\ stack = <<call>>
          /\ before = [op |-> call.func,
                       requests |-> [submit |-> 0, confirm |-> 0, auth |-> 0,
                                     suppress |-> 0, accounts |-> 0],
                       account_id |-> None]
    /\ ret = NoRet
    /\ slept = <<>>
    /\ cfg = [max_attempts |-> MAX_RETRY_ATTEMPTS, delay |-> RETRY_DELAY,
              backoff |-> RETRY_BACKOFF, no_retry_exceptions |-> {}]
    /\ calls = <<>>
    /\ NoGateway

NextRead ==
    \/ WrapperLoop \/ WrapperReturn \/ WrapperExcept
    \/ get_account_id \/ get_available_cash \/ get_account_balance
    \/ get_contract_id \/ get_price \/ get_position
    \/ CallRead

SpecRead == InitRead /\ [][NextRead]_vars

----------------------------------------------------------------------------
(* core/trader.py, core/strategy.py, logging/trade_logger.py: one run of   *)
(* Trader.execute_trade.  Money is in cents; a quantity of shares is a     *)
(* fraction [num, den].                                                    *)

MIN_CASH_THRESHOLD == 500          \* 5.0 dollars
CASH_BUFFER == 100                 \* 1.0 dollar
TIERED_RATE_PER_SHARE == 35        \* 0.0035 dollars, in 1/100 cent
TIERED_MIN_COMMISSION == 35        \* 0.35 dollars
TIERED_MAX_COMMISSION_PCT == 1     \* 0.01, in percent
FIXED_RATE_PER_SHARE == 50         \* 0.005 dollars, in 1/100 cent
FIXED_MIN_COMMISSION == 100        \* 1.00 dollars

SYMBOL == "TQQQ"

\* values of the configured COMMISSION_TYPE (read where it is used)
CommissionTypes == {"TIERED", "fixed", "FLAT"}

\* str.upper()
Upper(str) ==
    CASE str = "tiered" -> "TIERED"
      [] str = "fixed"  -> "FIXED"
      [] str = "flat"   -> "FLAT"
      [] OTHER          -> str

Max(a, b) == IF a >= b THEN a ELSE b
Min(a, b) == IF a <= b THEN a ELSE b

\* round(n / d, 0): to the nearest integer, a tie to the even one
Round(n, d) ==
    LET q == n \div d
        r == n % d
    IN IF 2 * r < d THEN q
       ELSE IF 2 * r > d THEN q + 1
       ELSE IF q % 2 = 0 THEN q ELSE q + 1

\* round(commission, 2) of a binary float whose exact value is n / d cents:
\* the nearest cent; when the exact value lies halfway between two cents the
\* float is a little above or below it and either cent can come out
Rounded(n, d) ==
    IF 2 * (n % d) = d THEN {n \div d, n \div d + 1} ELSE {Round(n, d)}

\* raise ValueError("Invalid commission_type. Must be 'TIERED' or 'FIXED'.")
InvalidCommissionType ==
    Raised([type |-> "ValueError",
            message |-> <<"Invalid commission_type. Must be 'TIERED' or 'FIXED'.">>,
            cause |-> None])

\* (a plausible slip: an unknown schedule name falls back to the fixed one)
get_ibkr_commission_defaulting(quantity, price, commission_type) ==
    LET den == 100 * quantity.den
    IN IF Upper(commission_type) = "TIERED"
       THEN { Value(c) :
                c \in Rounded(Min(Max(quantity.num * TIERED_RATE_PER_SHARE,
                                      TIERED_MIN_COMMISSION * den),
                                  quantity.num * price * TIERED_MAX_COMMISSION_PCT),
                              den) }
       ELSE { Value(c) : c \in Rounded(Max(quantity.num * FIXED_RATE_PER_SHARE,
                                           FIXED_MIN_COMMISSION * den), den) }

\* (a plausible slip: the tiered estimate without the 1 % cap)
get_ibkr_commission_uncapped(quantity, price, commission_type) ==
    LET den == 100 * quantity.den
    IN IF Upper(commission_type) = "TIERED"
       THEN { Value(c) : c \in Rounded(Max(quantity.num * TIERED_RATE_PER_SHARE,
                                           TIERED_MIN_COMMISSION * den), den) }
       ELSE IF Upper(commission_type) = "FIXED"
       THEN { Value(c) : c \in Rounded(Max(quantity.num * FIXED_RATE_PER_SHARE,
                                           FIXED_MIN_COMMISSION * den), den) }
       ELSE { InvalidCommissionType }

\* Trader._get_ibkr_commission: the outcomes of a call, amounts in cents
\* (the exact amounts are fractions over 100 * quantity.den)
get_ibkr_commission(quantity, price, commission_type) ==
    LET den == 100 * quantity.den
        trade_value == quantity.num * price
    IN IF Upper(commission_type) = "TIERED"
       THEN { Value(c) :
                c \in Rounded(Min(Max(quantity.num * TIERED_RATE_PER_SHARE,
                                      TIERED_MIN_COMMISSION * den),
                                  trade_value * TIERED_MAX_COMMISSION_PCT),
                              den) }
       ELSE IF Upper(commission_type) = "FIXED"
       THEN { Value(c) : c \in Rounded(Max(quantity.num * FIXED_RATE_PER_SHARE,
                                           FIXED_MIN_COMMISSION * den), den) }
       ELSE { InvalidCommissionType }

\* models/enums.py: Signal
Signals == {"BULLISH", "BEARISH", "NEUTRAL", "CLOSED"}

\* NotificationService.send_notification(account_id, severity, message)
Notification(severity, message) == [severity |-> severity, message |-> message]

\* what the sink does with one delivery: it goes through or it fails
DeliveryOutcomes == BOOLEAN

\* (a variant in which a failed delivery is not caught in the service)
SendToSinkUncaught(ok) ==
    IF ok THEN Value(None) ELSE Raised([type |-> "RequestException"])

\* NotificationService._send_email / _send_telegram / send_telegram_image:
\* a failed delivery is caught and logged inside the service
SendToSink(ok) == Value(None)

\* NotificationService.send_notification / send_trade_notification: the
\* notification is formatted and handed to the sink
Send(notification, ok) ==
    /\ notified' = Append(notified, notification)
    /\ deliveryFailed' = (deliveryFailed \/ ~ok)

\* TradingStrategy.get_signal (the decorated body): the market data cannot
\* be had, or a signal is computed and announced
get_signal ==
    /\ At("get_signal", "start") /\ ret.kind = "none"
    /\ stack' = Pop
    /\ \/ /\ ret' = Raised(Error(<<"Failed to get market signal">>))
          /\ UNCHANGED <<notified, deliveryFailed>>
       \/ \E signal \in Signals, ok \in DeliveryOutcomes :
          /\ Send(Notification("INFO", <<"Market Signal", signal>>), ok)
          /\ ret' = IF SendToSink(ok).kind = "exc" THEN SendToSink(ok)
                    ELSE Value(signal)
    /\ SpendFault(ret'.kind = "exc")
    /\ UNCHANGED <<slept, cfg, calls, gatewayVars, before, client_account_id,
                   trader_account_id, markers, lastRead, run, records>>

\* IBKRClient.get_performance: every exception is caught and logged
get_performance ==
    /\ At("get_performance", "start") /\ ret.kind = "none"
    /\ stack' = Pop
    /\ ret' = Value(None)
    /\ UNCHANGED <<slept, cfg, calls, gatewayVars, envVars, traderVars>>

\* datetime.now() of the run, and strftime('%Y%m%d_%H%M%S') of it
Now == [date |-> "20260102", time |-> "030405"]

\* (a variant: the compact format '%Y%m%d%H%M%S')
StrftimeCompact(timestamp) == timestamp.date \o timestamp.time

\* timestamp.strftime('%Y%m%d_%H%M%S'), of a datetime given by the 8 digits
\* of its date and the 6 digits of its time
Strftime(timestamp) == timestamp.date \o "_" \o timestamp.time

\* f"ORD_{trade.timestamp.strftime('%Y%m%d_%H%M%S')}"
SyntheticOrderId(timestamp) == "ORD_" \o Strftime(timestamp)

\* (a plausible slip: the trade is built without the order id)
TradeWithoutOrderId(account_id, action, symbol, dollar_amount, shares, order_id) ==
    [account_id |-> account_id, action |-> action, symbol |-> symbol,
     dollar_amount |-> dollar_amount,
     shares |-> Round(100 * shares.num, shares.den),
     order_id |-> None, timestamp |-> Now]

\* Trade(...): __post_init__ sets the timestamp and rounds the shares to
\* 1/100 share
Trade(account_id, action, symbol, dollar_amount, shares, order_id) ==
    [account_id |-> account_id, action |-> action, symbol |-> symbol,
     dollar_amount |-> dollar_amount,
     shares |-> Round(100 * shares.num, shares.den),
     order_id |-> order_id, timestamp |-> Now]

\* (a plausible slip: the order id is written as it is)
to_dict_as_is(trade) ==
    [Date |-> trade.timestamp, OrderId |-> trade.order_id,
     Action |-> trade.action, Symbol |-> trade.symbol,
     DollarAmount |-> trade.dollar_amount, Shares |-> trade.shares]

\* Trade.to_dict
to_dict(trade) ==
    [Date |-> trade.timestamp,
     OrderId |-> IF Truthy(trade.order_id) THEN trade.order_id
                 ELSE SyntheticOrderId(trade.timestamp),
     Action |-> trade.action, Symbol |-> trade.symbol,
     DollarAmount |-> trade.dollar_amount, Shares |-> trade.shares]

\* (a variant: `if not trade.order_id`, which also replaces an empty id)
LoggedOrderIdWhenFalsy(order_id, timestamp) ==
    IF Truthy(order_id) THEN order_id ELSE SyntheticOrderId(timestamp)

\* (a plausible slip: the order id is kept as it came)
LoggedOrderIdAsGiven(order_id, timestamp) == order_id

\* if trade.order_id is None: trade.order_id = f"ORD_..."
LoggedOrderId(order_id, timestamp) ==
    IF order_id = None THEN SyntheticOrderId(timestamp) ELSE order_id

\* TradeLogger.log_trade, working on the Trade object of its caller (whose
\* state after the call is kept as the run's `trade`): the bucket is looked
\* up outside the try; the
\* workbook is read, extended and written back inside it
log_trade ==
    /\ At("log_trade", "start") /\ ret.kind = "none"
    /\ stack' = Pop
    /\ LET trade == [Top.args.trade EXCEPT
                        !.order_id = LoggedOrderId(@, Top.args.trade.timestamp)]
       IN \/ /\ ret' = Raised([type |-> "EndpointConnectionError",
                               message |-> <<"Could not connect to the endpoint URL">>,
                               cause |-> None])
             /\ run' = ("trade" :> Top.args.trade) @@ run
             /\ UNCHANGED <<records, notified, deliveryFailed>>
             /\ SpendFault(TRUE)
          \/ /\ ret' = Value(trade.order_id)
             /\ run' = ("trade" :> trade) @@ run
             /\ \/ /\ records' = Append(records, to_dict(trade))
                   /\ \E ok \in DeliveryOutcomes :
                         Send(Notification("TRADE", trade), ok)
                   /\ SpendFault(FALSE)
                \/ /\ UNCHANGED <<records, notified, deliveryFailed>>
                   /\ SpendFault(TRUE)
    /\ UNCHANGED <<slept, cfg, calls, gatewayVars, before, client_account_id,
                   trader_account_id, markers, lastRead>>

\* if signal == Signal.BULLISH
IsBullish(signal) == signal = "BULLISH"

\* (a plausible slip: every signal but BULLISH sells)
IsBearishOrNeutralOrClosed(signal) == signal # "BULLISH"

\* elif signal == Signal.BEARISH or signal == Signal.NEUTRAL
IsBearishOrNeutral(signal) == signal \in {"BEARISH", "NEUTRAL"}

\* (a plausible slip: the threshold test is left out)
ThresholdIgnored(available_cash) == TRUE

\* (a plausible slip: the threshold itself is enough)
AtLeastThreshold(available_cash) == available_cash >= MIN_CASH_THRESHOLD

\* if available_cash > MIN_CASH_THRESHOLD
AboveThreshold(available_cash) == available_cash > MIN_CASH_THRESHOLD

\* a local of the run is assigned
Assign(name, value) == run' = (name :> value) @@ run

\* (a plausible variant: try / finally without the except clause)
ExceptMissing(e) ==
    /\ markers' = Append(markers, "END")
    /\ stack' = Pop
    /\ ret' = Raised(e)
    /\ UNCHANGED <<notified, deliveryFailed>>

\* Trader.execute_trade, `except Exception as e` and `finally`: the error
\* is logged and notified, the END line is logged, the call returns
Except(e) ==
    \E ok \in DeliveryOutcomes :
        /\ Send(Notification("ERROR", <<"Trade execution failed", e>>), ok)
        /\ markers' = Append(markers, "END")
        /\ stack' = Pop
        /\ ret' = SendToSink(ok)

\* (a plausible slip: the END line is logged in the except clause only)
FinallyWithoutEnd ==
    /\ markers' = markers
    /\ stack' = Pop
    /\ ret' = Value(None)

\* Trader.execute_trade, `finally` after a try block that ran to its end
Finally ==
    /\ markers' = Append(markers, "END")
    /\ stack' = Pop
    /\ ret' = Value(None)

\* Trader.execute_trade
execute_trade ==
    /\ Running /\ Top.fn = "execute_trade"
    /\ \/ /\ Top.pc = "start" /\ ret.kind = "none"
          /\ stack' = Append(ReplaceTop([Top EXCEPT !.pc = "initialize"]),
                             Frame("initialize", <<>>))
          /\ UNCHANGED <<ret, trader_account_id, markers, notified, deliveryFailed, run>>
       \/ /\ Top.pc = "initialize" /\ ret.kind = "value"
          /\ stack' = Append(ReplaceTop([Top EXCEPT !.pc = "get_account_id"]),
                             Decorated("get_account_id", <<>>))
          /\ ret' = NoRet
          /\ UNCHANGED <<trader_account_id, markers, notified, deliveryFailed, run>>
       \/ /\ Top.pc = "get_account_id" /\ ret.kind = "value"
          /\ trader_account_id' = ret.val
          /\ markers' = Append(markers, "BEGIN")
          /\ stack' = Append(ReplaceTop([Top EXCEPT !.pc = "get_signal"]),
                             Decorated("get_signal", [account_id |-> ret.val]))
          /\ ret' = NoRet
          /\ UNCHANGED <<notified, deliveryFailed, run>>
       \/ /\ Top.pc = "get_signal" /\ ret.kind = "value"
          /\ Assign("signal", ret.val)
          /\ stack' = Append(ReplaceTop([Top EXCEPT !.pc = "get_contract_id"]),
                             Decorated("get_contract_id", [symbol |-> SYMBOL]))
          /\ ret' = NoRet
          /\ UNCHANGED <<trader_account_id, markers, notified, deliveryFailed>>
       \/ /\ Top.pc = "get_contract_id" /\ ret.kind = "value"
          /\ Assign("contract_id", ret.val)
          /\ stack' = Append(ReplaceTop([Top EXCEPT !.pc = "get_price"]),
                             Decorated("get_price", [conid |-> ret.val]))
          /\ ret' = NoRet
          /\ UNCHANGED <<trader_account_id, markers, notified, deliveryFailed>>
       \/ /\ Top.pc = "get_price" /\ ret.kind = "value"
          /\ Assign("price", ret.val)
          /\ stack' = Append(ReplaceTop([Top EXCEPT !.pc = "get_position"]),
                             Decorated("get_position",
                                       [account_id |-> trader_account_id,
                                        conid |-> run.contract_id]))
          /\ ret' = NoRet
          /\ UNCHANGED <<trader_account_id, markers, notified, deliveryFailed>>
       \/ /\ Top.pc = "get_position" /\ ret.kind = "value"
          /\ Assign("current_position", ret.val)
          /\ stack' = Append(ReplaceTop([Top EXCEPT !.pc = "get_account_balance"]),
                             Decorated("get_account_balance",
                                       [account_id |-> trader_account_id]))
          /\ ret' = NoRet
          /\ UNCHANGED <<trader_account_id, markers, notified, deliveryFailed>>
       \/ /\ Top.pc = "get_account_balance" /\ ret.kind = "value"
          /\ \E ok \in DeliveryOutcomes :
                /\ Send(Notification("INFO", <<"Account Balance", ret.val>>), ok)
                /\ IF SendToSink(ok).kind = "exc"
                   THEN /\ ret' = SendToSink(ok)
                        /\ UNCHANGED stack
                   ELSE /\ ret' = NoRet
                        /\ stack' = Append(
                               ReplaceTop([Top EXCEPT !.pc = "get_performance"]),
                               Frame("get_performance",
                                     [account_id |-> trader_account_id]))
          /\ Assign("account_balance", ret.val)
          /\ UNCHANGED <<trader_account_id, markers>>
       \/ /\ Top.pc = "get_performance" /\ ret.kind = "value"
          /\ IsBullish(run.signal)
          /\ stack' = Append(ReplaceTop([Top EXCEPT !.pc = "handle"]),
                             Frame("_handle_bullish_signal",
                                   [account_id |-> trader_account_id,
                                    contract_id |-> run.contract_id,
                                    price |-> run.price]))
          /\ ret' = NoRet
          /\ UNCHANGED <<trader_account_id, markers, notified, deliveryFailed, run>>
       \/ /\ Top.pc = "get_performance" /\ ret.kind = "value"
          /\ ~IsBullish(run.signal) /\ IsBearishOrNeutral(run.signal)
          /\ stack' = Append(ReplaceTop([Top EXCEPT !.pc = "handle"]),
                             Frame("_handle_bearish_or_neutral_signal",
                                   [account_id |-> trader_account_id,
                                    contract_id |-> run.contract_id,
                                    price |-> run.price,
                                    current_position |-> run.current_position]))
          /\ ret' = NoRet
          /\ UNCHANGED <<trader_account_id, markers, notified, deliveryFailed, run>>
       \/ /\ \/ Top.pc = "get_performance" /\ ret.kind = "value"
                /\ ~IsBullish(run.signal) /\ ~IsBearishOrNeutral(run.signal)
             \/ Top.pc = "handle" /\ ret.kind = "value"
          /\ Finally
          /\ UNCHANGED <<trader_account_id, notified, deliveryFailed, run>>
       \/ /\ Top.pc # "start" /\ ret.kind = "exc"
          /\ Except(ret.exc)
          /\ UNCHANGED <<trader_account_id, run>>
    /\ lastRead' = NoRead
    /\ slept' = <<>>
    /\ UNCHANGED <<cfg, calls, gatewayVars, envVars, client_account_id, records>>

\* Trader._handle_bullish_signal
handle_bullish_signal ==
    /\ Running /\ Top.fn = "_handle_bullish_signal"
    /\ \/ /\ Top.pc = "start" /\ ret.kind = "none"
          /\ stack' = Calling(Decorated("get_available_cash",
                                        [account_id |-> Top.args.account_id]))
          /\ UNCHANGED <<ret, run>>
       \/ /\ Top.pc = "call" /\ ret.kind = "value"
          /\ \E COMMISSION_TYPE \in CommissionTypes :
             \E commission \in get_ibkr_commission(
                                   [num |-> ret.val, den |-> Top.args.price],
                                   Top.args.price, COMMISSION_TYPE) :
             LET available_cash == ret.val
                 quantity == [num |-> available_cash, den |-> Top.args.price]
             IN IF AboveThreshold(available_cash)
                THEN IF Top.args.price = 0
                     THEN /\ stack' = Pop
                          /\ ret' = Raised([type |-> "ZeroDivisionError",
                                            message |-> <<"float division by zero">>,
                                            cause |-> None])
                          /\ Assign("available_cash", available_cash)
                     ELSE IF commission.kind = "exc"
                     THEN /\ stack' = Pop
                          /\ ret' = commission
                          /\ run' = [available_cash |-> available_cash,
                                     commission_type |-> COMMISSION_TYPE] @@ run
                     ELSE LET amount == available_cash - commission.val - CASH_BUFFER IN
                          /\ stack' = Append(
                                 ReplaceTop([fn |-> Top.fn, pc |-> "order",
                                             args |-> Top.args, amount |-> amount,
                                             quantity |-> quantity]),
                                 Decorated("place_buy_order",
                                           [account_id |-> Top.args.account_id,
                                            conid |-> Top.args.contract_id,
                                            cash_quantity |-> amount]))
                          /\ ret' = NoRet
                          /\ run' = [available_cash |-> available_cash,
                                     commission_type |-> COMMISSION_TYPE,
                                     commission |-> commission.val] @@ run
                ELSE /\ stack' = Pop
                     /\ ret' = Value(None)
                     /\ Assign("available_cash", available_cash)
       \/ /\ Top.pc = "order" /\ ret.kind = "value"
          /\ stack' = Append(
                 ReplaceTop([Top EXCEPT !.pc = "log_trade"]),
                 Frame("log_trade",
                       [trade |-> Trade(Top.args.account_id, "Buy", SYMBOL,
                                        Top.amount, Top.quantity, ret.val)]))
          /\ ret' = NoRet
          /\ run' = [order_id |-> ret.val,
                     created |-> Trade(Top.args.account_id, "Buy", SYMBOL,
                                       Top.amount, Top.quantity, ret.val)] @@ run
       \/ /\ Top.pc = "log_trade" /\ ret.kind = "value"
          /\ stack' = Pop
          /\ ret' = Value(None)
          /\ UNCHANGED run
       \/ /\ Top.pc \in {"call", "order", "log_trade"} /\ ret.kind = "exc"
          /\ stack' = Pop
          /\ UNCHANGED <<ret, run>>
    /\ lastRead' = NoRead
    /\ slept' = <<>>
    /\ UNCHANGED <<cfg, calls, gatewayVars, envVars, client_account_id,
                   trader_account_id, markers, notified, deliveryFailed, records>>

\* (a variant: the handler places the order once more when placing it raised)
handle_bearish_or_neutral_signal_again ==
    /\ Running /\ Top.fn = "_handle_bearish_or_neutral_signal"
    /\ \/ /\ Top.pc = "start" /\ ret.kind = "none"
          /\ IF Top.args.current_position > 0
             THEN LET quantity == Top.args.current_position IN
                  /\ stack' = Append(
                         ReplaceTop([fn |-> Top.fn, pc |-> "order", args |-> Top.args,
                                     amount |-> quantity * Top.args.price,
                                     quantity |-> [num |-> quantity, den |-> 1]]),
                         Decorated("place_sell_order",
                                   [account_id |-> Top.args.account_id,
                                    conid |-> Top.args.contract_id,
                                    quantity |-> quantity]))
                  /\ ret' = NoRet
             ELSE /\ stack' = Pop
                  /\ ret' = Value(None)
          /\ UNCHANGED run
       \/ /\ Top.pc = "order" /\ ret.kind = "value"
          /\ stack' = Append(
                 ReplaceTop([Top EXCEPT !.pc = "log_trade"]),
                 Frame("log_trade",
                       [trade |-> Trade(Top.args.account_id, "Sell", SYMBOL,
                                        Top.amount, Top.quantity, ret.val)]))
          /\ ret' = NoRet
          /\ run' = [order_id |-> ret.val,
                     created |-> Trade(Top.args.account_id, "Sell", SYMBOL,
                                       Top.amount, Top.quantity, ret.val)] @@ run
       \/ /\ Top.pc = "log_trade" /\ ret.kind = "value"
          /\ stack' = Pop
          /\ ret' = Value(None)
          /\ UNCHANGED run
       \/ /\ Top.pc = "order" /\ ret.kind = "exc" /\ "again" \notin DOMAIN run
          /\ stack' = Append(stack,
                             Decorated("place_sell_order",
                                       [account_id |-> Top.args.account_id,
                                        conid |-> Top.args.contract_id,
                                        quantity |-> Top.args.current_position]))
          /\ ret' = NoRet
          /\ Assign("again", TRUE)
       \/ /\ \/ Top.pc = "order" /\ "again" \in DOMAIN run
             \/ Top.pc = "log_trade"
          /\ ret.kind = "exc"
          /\ stack' = Pop
          /\ UNCHANGED <<ret, run>>
    /\ lastRead' = NoRead
    /\ slept' = <<>>
    /\ UNCHANGED <<cfg, calls, gatewayVars, envVars, client_account_id,
                   trader_account_id, markers, notified, deliveryFailed, records>>

\* Trader._handle_bearish_or_neutral_signal
handle_bearish_or_neutral_signal ==
    /\ Running /\ Top.fn = "_handle_bearish_or_neutral_signal"
    /\ \/ /\ Top.pc = "start" /\ ret.kind = "none"
          /\ IF Top.args.current_position > 0
             THEN LET quantity == Top.args.current_position IN
                  /\ stack' = Append(
                         ReplaceTop([fn |-> Top.fn, pc |-> "order", args |-> Top.args,
                                     amount |-> quantity * Top.args.price,
                                     quantity |-> [num |-> quantity, den |-> 1]]),
                         Decorated("place_sell_order",
                                   [account_id |-> Top.args.account_id,
                                    conid |-> Top.args.contract_id,
                                    quantity |-> quantity]))
                  /\ ret' = NoRet
             ELSE /\ stack' = Pop
                  /\ ret' = Value(None)
          /\ UNCHANGED run
       \/ /\ Top.pc = "order" /\ ret.kind = "value"
          /\ stack' = Append(
                 ReplaceTop([Top EXCEPT !.pc = "log_trade"]),
                 Frame("log_trade",
                       [trade |-> Trade(Top.args.account_id, "Sell", SYMBOL,
                                        Top.amount, Top.quantity, ret.val)]))
          /\ ret' = NoRet
          /\ run' = [order_id |-> ret.val,
                     created |-> Trade(Top.args.account_id, "Sell", SYMBOL,
                                       Top.amount, Top.quantity, ret.val)] @@ run
       \/ /\ Top.pc = "log_trade" /\ ret.kind = "value"
          /\ stack' = Pop
          /\ ret' = Value(None)
          /\ UNCHANGED run
       \/ /\ Top.pc \in {"order", "log_trade"} /\ ret.kind = "exc"
          /\ stack' = Pop
          /\ UNCHANGED <<ret, run>>
    /\ lastRead' = NoRead
    /\ slept' = <<>>
    /\ UNCHANGED <<cfg, calls, gatewayVars, envVars, client_account_id,
                   trader_account_id, markers, notified, deliveryFailed, records>>

(* SpecTrade: one run of Trader.execute_trade against a gateway, a market  *)
(* data source and a store that answer in any of the ways above, with at   *)
(* most MaxFaults failed answers.                                          *)

InitTrade ==
    /\ stack = <<Frame("execute_trade", <<>>)>>
    /\ ret = NoRet
    /\ slept = <<>>
    /\ cfg = [max_attempts |-> MAX_RETRY_ATTEMPTS, delay |-> RETRY_DELAY,
              backoff |-> RETRY_BACKOFF, no_retry_exceptions |-> {}]
    /\ calls = <<>>
    /\ ncalls = 1
    /\ requests = [submit |-> 0, confirm |-> 0, auth |-> 0, suppress |-> 0,
                   accounts |-> 0]
    /\ lastSubmit = NoResponse
    /\ lastConfirm = NoResponse
    /\ rounds = 0
    /\ lastAuth = NoResponse
    /\ lastSuppress = NoResponse
    /\ faultsLeft = MaxFaults
    /\ before = [ok |-> FALSE, requests |-> requests]
    /\ client_account_id = None
    /\ trader_account_id = ""
    /\ markers = <<>>
    /\ notified = <<>>
    /\ deliveryFailed = FALSE
    /\ lastRead = NoRead
    /\ run = [started |-> TRUE]
    /\ records = <<>>

NextTrade ==
    \/ WrapperLoop \/ WrapperReturn \/ WrapperExcept
    \/ initialize \/ check_auth \/ suppress_order_reply_messages
    \/ get_account_id \/ get_available_cash \/ get_account_balance
    \/ get_contract_id \/ get_price \/ get_position
    \/ get_signal \/ get_performance
    \/ place_sell_order \/ place_buy_order
    \/ PlaceMarketOrderPost \/ PlaceMarketOrderConfirmed \/ confirm_order
    \/ execute_trade \/ handle_bullish_signal \/ handle_bearish_or_neutral_signal
    \/ log_trade

SpecTrade == InitTrade /\ [][NextTrade]_vars

----------------------------------------------------------------------------
(* Claims about the retry decorator (SpecRetry) *)

\* the sleeps of the outermost retry loop
sleeps == IF 1 \in DOMAIN slept THEN slept[1] ELSE <<>>

RECURSIVE Pow(_, _)
Pow(b, n) == IF n = 0 THEN 1 ELSE b * Pow(b, n - 1)

\* the i-th invocation of the operation raised an error
Failed(i) == i \in 1..Len(calls) /\ calls[i].kind = "exc"

\* ... whose class is, or derives from, a class of the non-retryable set
FailedFatal(i) ==
    Failed(i) /\ \E t \in cfg.no_retry_exceptions : t \in Bases(calls[i].exc.type)

FailedRetryable(i) == Failed(i) /\ ~FailedFatal(i)

\* C6: when the operation raises an error of a non-retryable class, the
\* wrapper re-raises that same error after exactly 1 invocation and with no
\* sleep, for every max_attempts >= 1, delay and backoff.
C6_FatalErrorRaisedAfterOneAttempt ==
    FailedFatal(1) =>
        /\ Len(calls) = 1
        /\ sleeps = <<>>
        /\ Done => ret = calls[1]

C6_Witness ==
    /\ Done /\ FailedFatal(1)
    /\ calls[1].exc.type = "FatalSubError"
    /\ cfg.max_attempts > 1 /\ cfg.delay > 0
    /\ ret = calls[1]

\* C7: when the operation raises a retryable error on its first
\* max_attempts - 1 invocations and succeeds on the next one, the wrapper
\* returns the success value after exactly max_attempts invocations and
\* max_attempts - 1 sleeps of delay, delay*backoff, delay*backoff^2, ...,
\* which increase strictly when delay > 0 and backoff > 1.  (The wrapper does
\* not give up before the max_attempts-th invocation.)
C7_SuccessOnLastAttempt ==
    LET n == cfg.max_attempts IN
    /\ (Done /\ \A i \in 1..Len(calls) : FailedRetryable(i)) => Len(calls) >= n
    /\ (/\ Done /\ Len(calls) >= n
        /\ \A i \in 1..(n - 1) : FailedRetryable(i)
        /\ calls[n].kind = "value")
       => /\ Len(calls) = n
          /\ ret = calls[n]
          /\ Len(sleeps) = n - 1
          /\ \A k \in 1..(n - 1) : sleeps[k] = cfg.delay * Pow(cfg.backoff, k - 1)
          /\ (cfg.delay > 0 /\ cfg.backoff > 1)
                => \A k \in 1..(n - 2) : sleeps[k] < sleeps[k + 1]

C7_Witness ==
    /\ Done /\ cfg.max_attempts = 3 /\ cfg.delay = 1 /\ cfg.backoff = 2
    /\ Len(calls) = 3 /\ FailedRetryable(1) /\ FailedRetryable(2)
    /\ ret = Value("v")
    /\ sleeps = <<1, 2>>

\* all max_attempts attempts were made and failed with retryable errors
AllAttemptsFailed ==
    /\ Len(calls) = cfg.max_attempts
    /\ \A i \in 1..Len(calls) : FailedRetryable(i)

\* C8 (as claimed): when all max_attempts attempts fail with retryable
\* errors, the wrapper raises a terminal failure that wraps the last observed
\* error and names the operation and the attempt count.
C8_TerminalFailureWrapsLastError ==
    (Done /\ AllAttemptsFailed) =>
        /\ ret.kind = "exc"
        /\ ret.exc.cause # None
        /\ ret.exc.cause = calls[Len(calls)].exc
        /\ ret.exc.message = <<"op", "failed after", cfg.max_attempts, "retries">>

\* C8 (amended): when all max_attempts attempts fail with retryable errors,
\* the wrapper raises a new plain Exception whose message names the operation
\* and the attempt count; the last observed error is not carried by it (it has
\* no cause), and it is not the last observed error itself.
C8_TerminalFailureNamesOperationOnly ==
    (Done /\ AllAttemptsFailed) =>
        /\ ret.kind = "exc"
        /\ ret.exc.type = "Exception"
        /\ ret.exc.message = <<"op", "failed after", cfg.max_attempts, "retries">>
        /\ ret.exc.cause = None
        /\ ret # calls[Len(calls)]

C8_Witness ==
    /\ Done /\ AllAttemptsFailed /\ cfg.max_attempts = 3
    /\ ret.kind = "exc" /\ ret.exc.type = "Exception"

----------------------------------------------------------------------------
(* Claims about order placement (SpecOrder) *)

\* the latest answer of the gateway to an order-submission or reply POST
LastResponse == IF lastConfirm.shape # "none" THEN lastConfirm ELSE lastSubmit

\* that answer is an object with a top-level `error` field
Rejected == LastResponse.shape = "dict" /\ LastResponse.error # Absent

\* element 0 of the latest submission response (a non-empty list)
HasElement0 == lastSubmit.shape = "list" /\ lastSubmit.n > 0

\* the order id carried by element 0 of the latest submission response
SubmittedOrderId ==
    IF HasElement0 /\ lastSubmit.order_id # Absent THEN lastSubmit.order_id ELSE None

\* the order id carried by the latest confirmation response
ConfirmedOrderId ==
    IF /\ \/ lastConfirm.shape = "list" /\ lastConfirm.n > 0
          \/ lastConfirm.shape = "dict"
       /\ lastConfirm.order_id # Absent
    THEN lastConfirm.order_id ELSE None

\* element 0 of the latest submission response asks for a confirmation
CarriesConfirmationId == HasElement0 /\ lastSubmit.id \notin {Absent, None, ""}

\* C1: when the answer to the order-submission POST or to a reply POST is an
\* object with a top-level `error` field, OrderRejectionError is raised and
\* propagates through every retry layer, and no further gateway POST is issued
\* in the call.
C1_RejectionIsNotRetried ==
    /\ [](Rejected => ret.kind = "exc" /\ ret.exc.type = "OrderRejectionError")
    /\ [][Rejected => requests' = requests]_vars

C1_Witness ==
    /\ Done /\ Rejected /\ lastConfirm.shape = "dict"
    /\ requests.submit = 1 /\ requests.confirm = 1
    /\ ret.kind = "exc" /\ ret.exc.type = "OrderRejectionError"

\* C2 (as claimed): every place_buy_order / place_sell_order call either
\* returns a non-null order id or raises; it never returns normally without an
\* order id.
C2_NeverReturnsWithoutOrderId ==
    Done => \/ ret.kind = "exc"
            \/ ret.kind = "value" /\ ret.val # None

\* C2 (amended): every call ends in one of three ways: it raises
\* (OrderRejectionError or the retry wrapper's Exception), or it returns the
\* order_id field of element 0 of the submission response when that field is
\* present and not null, or else it returns the order_id field of the
\* confirmation response, which is None when there was no confirmation or the
\* confirmation response carries no order id.  So it returns None for an empty
\* list, for an object-shaped non-error response, for an element with neither
\* order id nor confirmation id, and for a confirmation response with neither
\* order id nor error.
C2_ReturnsOrderIdOrNoneOrRaises ==
    Done => \/ /\ ret.kind = "exc"
               /\ ret.exc.type \in {"OrderRejectionError", "Exception"}
            \/ /\ ret.kind = "value"
               /\ ret.val = IF SubmittedOrderId # None THEN SubmittedOrderId
                            ELSE ConfirmedOrderId

C2_Witness ==
    /\ Done /\ ret = Value(None)
    /\ lastSubmit.shape = "list" /\ lastSubmit.n = 0
    /\ requests.submit = 1 /\ requests.confirm = 0

\* the gateway answered the acknowledgement with a new confirmation id
NewConfirmationId ==
    /\ lastConfirm.shape = "list" /\ lastConfirm.n > 0
    /\ lastConfirm.id = "c2" /\ lastConfirm.order_id = Absent

\* C3 (as claimed): against a gateway that answers every acknowledgement with a
\* new confirmation id the protocol requests exactly 5 acknowledgements and then
\* ends in an explicit failure.
C3_FiveRoundsThenExhausted ==
    (Done /\ NewConfirmationId) => rounds = 5 /\ ret.kind = "exc"

\* C3 (amended): there is one confirmation round.  One submission leads to at
\* most MAX_RETRY_ATTEMPTS (3) reply POSTs, repeated only after transport
\* failures; once a reply POST has been answered no further POST is issued in
\* the call; against a gateway that answers the acknowledgement with a new
\* confirmation id the new id is ignored and the call returns normally with
\* the submission's order id, or None, not with a failure.
C3_SingleConfirmationRound ==
    /\ [](rounds <= MAX_RETRY_ATTEMPTS)
    /\ [][lastConfirm.shape \in {"dict", "list"} => requests' = requests]_vars
    /\ []((Done /\ NewConfirmationId) => ret = Value(SubmittedOrderId))

C3_Witness ==
    /\ Done /\ NewConfirmationId
    /\ requests.submit = 1 /\ requests.confirm = 1 /\ rounds = 1
    /\ ret = Value(None)

\* C4 (as claimed): an acknowledgement is posted only when every warning code
\* that came with the confirmation request is in the suppression set.
C4_AcknowledgesOnlySuppressedCodes ==
    rounds > 0 => lastSubmit.messageIds \subseteq suppress_message_ids

\* C4 (amended): an acknowledgement is posted exactly when element 0 of a
\* list-shaped submission response carries a non-empty confirmation id,
\* whatever warning codes come with it: the codes are not compared with the
\* suppression set.
C4_AcknowledgesEveryConfirmationId ==
    /\ rounds > 0 => CarriesConfirmationId
    /\ (Done /\ CarriesConfirmationId) => rounds > 0

C4_Witness ==
    /\ rounds > 0
    /\ "o9999" \in lastSubmit.messageIds
    /\ "o9999" \notin suppress_message_ids
    /\ lastConfirm.shape = "dict" /\ lastConfirm.order_id = "o2"

\* C5 (as claimed): if element 0 of the submission response carries an order
\* id, the call returns it and requests no acknowledgement, whatever else
\* element 0 contains.
C5_OrderIdMeansNoAcknowledgement ==
    (HasElement0 /\ lastSubmit.order_id = "o1") =>
        /\ rounds = 0
        /\ Done => ret = Value("o1")

\* C5 (amended): if element 0 carries an order id and no confirmation id, the
\* call returns that order id and requests no acknowledgement.  If element 0 also
\* carries a confirmation id, the acknowledgement is posted all the same, and
\* the call returns the submission's order id if the confirmation is answered
\* without error and raises otherwise.
C5_OrderIdWithoutConfirmationId ==
    (HasElement0 /\ lastSubmit.order_id = "o1") =>
        /\ ~CarriesConfirmationId => rounds = 0 /\ (Done => ret = Value("o1"))
        /\ (Done /\ CarriesConfirmationId) =>
              /\ rounds > 0
              /\ IF lastConfirm.shape = "list" \/ (lastConfirm.shape = "dict" /\ ~Rejected)
                 THEN ret = Value("o1")
                 ELSE ret.kind = "exc"

C5_Witness ==
    /\ Done /\ HasElement0 /\ lastSubmit.order_id = "o1" /\ lastSubmit.id = "c1"
    /\ rounds = 1 /\ ConfirmedOrderId = "o2"
    /\ ret = Value("o1")

\* C9 (as claimed): when every order-submission POST fails in transport, one
\* call issues exactly MAX_RETRY_ATTEMPTS submission POSTs and then raises.
\* (No reply POST was issued and the latest submission failed: no submission
\* was answered.)
C9_TransportFailureRetriedUpToBound ==
    (Done /\ lastSubmit = TransportFailure /\ requests.confirm = 0) =>
        /\ requests.submit = MAX_RETRY_ATTEMPTS
        /\ ret.kind = "exc"

----------------------------------------------------------------------------
(* Claims about session initialization (SpecInit) *)

\* the latest auth-status check of the current call reported authenticated
ReportedAuthenticated ==
    lastAuth.shape = "dict" /\ lastAuth.authenticated = "true"

\* C10: initialize() checks the auth status strictly before it registers the
\* warning suppression: a suppression POST is issued only after an auth check
\* of the same call reported authenticated; when every auth check of the call
\* fails, initialize() raises and has issued no suppression POST.
C10_AuthCheckBeforeSuppression ==
    /\ [][requests'.suppress > requests.suppress => ReportedAuthenticated]_vars
    /\ [](lastSuppress.shape # "none" => ReportedAuthenticated)
    /\ []((Done /\ ~ReportedAuthenticated) =>
             ret.kind = "exc" /\ lastSuppress.shape = "none")

C10_Witness ==
    /\ Done /\ ncalls = 1
    /\ lastAuth.shape = "dict" /\ lastAuth.authenticated = "false"
    /\ requests.auth = MAX_RETRY_ATTEMPTS /\ requests.suppress = 0
    /\ ret.kind = "exc"

----------------------------------------------------------------------------
(* Claims about repeated initialization (SpecInit) *)

\* an earlier initialize() call on this client returned normally
InitializedBefore == ncalls > 1 /\ before.ok

\* C11 (as claimed): after initialize() has completed successfully once, a
\* further initialize() call issues neither the auth-status GET nor the
\* suppression POST again.
C11_InitializeIsIdempotent ==
    InitializedBefore =>
        /\ requests.auth = before.requests.auth
        /\ requests.suppress = before.requests.suppress

\* C11 (amended): initialize() keeps no record of an earlier success: every
\* call that finishes has issued the auth-status GET again, and every call
\* that returns normally has also issued the suppression POST again and got
\* "authenticated" and "submitted" answers of its own.
C11_InitializeRunsEveryTime ==
    (InitializedBefore /\ Done) =>
        /\ requests.auth > before.requests.auth
        /\ ret.kind = "value" =>
              /\ requests.suppress > before.requests.suppress
              /\ lastAuth \in AuthResponses /\ IsAuthenticated(lastAuth)
              /\ lastSuppress \in SuppressResponses /\ IsSubmitted(lastSuppress)

C11_Witness ==
    /\ InitializedBefore /\ Done /\ ret.kind = "value"
    /\ before.requests.auth = 1 /\ before.requests.suppress = 1
    /\ requests.auth = 2 /\ requests.suppress = 2

----------------------------------------------------------------------------
(* Claims about the read operations (SpecRead) *)

\* the call in progress, or just finished, is a get_account_id call made
\* after an earlier get_account_id call returned an account id
AccountIdKnown == before.op = "get_account_id" /\ before.account_id # None

\* C18: after get_account_id has returned successfully once, every later
\* get_account_id call on the same client issues no accounts GET and returns
\* the same account id.
C18_AccountIdIsCached ==
    AccountIdKnown =>
        /\ requests.accounts = before.requests.accounts
        /\ Done => ret = Value(before.account_id)

C18_Witness ==
    /\ AccountIdKnown /\ Done /\ ncalls = 2
    /\ before.requests.accounts = 2
    /\ requests.accounts = 2
    /\ ret = Value("U1")

\* the body of the read operation op has just returned or raised
Answered(op) ==
    /\ Running /\ Top.fn = "wrapper" /\ Top.func = op
    /\ ret.kind # "none"
    /\ lastRead.op = op /\ lastRead.data.shape \in {"dict", "list"}

\* the field op needs is absent from the response it has just parsed
NeededFieldAbsent(op) ==
    LET data == lastRead.data IN
    CASE op = "get_account_id"      -> ~data.has_accounts
      [] op = "get_available_cash"  -> data.availableFunds = FieldAbsent
      [] op = "get_account_balance" -> data.netLiquidationValue = FieldAbsent
      [] op = "get_contract_id"     ->
            /\ data.shape = "list" /\ Len(data.items) > 0
            /\ data.items[1].conid = FieldAbsent
      [] op = "get_price"           ->
            \/ ~data.has_data
            \/ Len(data.data) > 0 /\ data.data[Len(data.data)].c = FieldAbsent
      [] op = "get_position"        ->
            /\ data.shape = "list"
            /\ \E i \in 1..Len(data.items) :
                  /\ data.items[i].conid = Top.args.conid
                  /\ data.items[i].position = FieldAbsent

RaisesWhenFieldAbsent(op) ==
    (Answered(op) /\ NeededFieldAbsent(op)) => ret.kind = "exc"

\* the five read operations that do raise when their field is absent
C19_OtherReadsRaise ==
    \A op \in {"get_account_id", "get_available_cash", "get_account_balance",
                "get_contract_id", "get_price"} : RaisesWhenFieldAbsent(op)

\* C19: each read operation raises whenever the field it needs is absent
\* from the response it parses and never returns a default value instead:
\* accounts, availableFunds, netLiquidationValue, the conid of the first
\* search result, the price field, and the position field of the positions
\* entry matching the contract id.
C19_ReadsRaiseWhenFieldAbsent ==
    /\ C19_OtherReadsRaise
    /\ RaisesWhenFieldAbsent("get_position")

\* C20 (as claimed): the price lookup returns the first of last price, mark
\* price and prior close that is present and a number, and fails only if
\* none of the three is.
C20_PriceFromQuoteFields ==
    Answered("get_price") =>
        ret = PriceFromQuote(lastRead.data, Top.args.conid)

\* C20 (amended): the price lookup reads one field only, the close "c" of
\* the last daily bar of the history response: it returns that close when it
\* is a number and raises in every other case (no bars, no close, a close
\* that is null or not numeric), whatever other price fields the response
\* carries.
C20_PriceIsLastBarClose ==
    Answered("get_price") =>
        LET bars == lastRead.data.data
            has_close == /\ lastRead.data.has_data /\ Len(bars) > 0
                         /\ bars[Len(bars)].c.tag = "number"
        IN /\ ret.kind = "value" <=> has_close
           /\ ret.kind = "value" => ret.val = bars[Len(bars)].c.n

C20_Witness ==
    /\ Answered("get_price")
    /\ lastRead.data.last = Number(4000)
    /\ Len(lastRead.data.data) = 2
    /\ ret = Value(5000)

----------------------------------------------------------------------------
(* Claims about a run of execute_trade (SpecTrade) *)

\* an exception has reached the try block of execute_trade
ExceptionInExecutor ==
    /\ Len(stack) = 1 /\ Top.fn = "execute_trade"
    /\ ret.kind = "exc"

\* the number of END lines logged
Ends == Cardinality({ i \in 1..Len(markers) : markers[i] = "END" })

\* C12: for every exception raised by a step inside execute_trade,
\* execute_trade hands an ERROR notification carrying the error to the
\* notification service, logs the END line and returns normally; the END
\* line is logged exactly once in every run, at its end, whether or not an
\* exception occurred, and no exception leaves execute_trade.
C12_ExecutorCatchesEverything ==
    /\ [](Running => Ends = 0)
    /\ [](Done => /\ Ends = 1 /\ markers[Len(markers)] = "END"
                  /\ ret = Value(None))
    /\ [][ExceptionInExecutor =>
            /\ notified' = Append(notified,
                    Notification("ERROR", <<"Trade execution failed", ret.exc>>))
            /\ stack' = <<>>
            /\ ret' = Value(None)]_vars

C12_Witness ==
    /\ Done /\ ret = Value(None)
    /\ markers = <<"BEGIN", "END">>
    /\ notified[Len(notified)].severity = "ERROR"
    /\ notified[Len(notified)].message[2].type = "EndpointConnectionError"
    /\ requests.submit = 1

\* the position the run has read
PositionIs(positions) ==
    "current_position" \in DOMAIN run /\ run.current_position \in positions

\* the run has come to the branch on the signal
ReachedBranch == "account_balance" \in DOMAIN run

\* the signal of the run, once execute_trade has read it
SignalIs(signals) == "signal" \in DOMAIN run /\ run.signal \in signals

\* C13: when the signal is CLOSED the run ends with no trading action: no
\* order-submission POST is issued, no confirmation POST is issued, and no
\* Trade Record is logged.
C13_ClosedMeansNoTrade ==
    SignalIs({"CLOSED"}) =>
        /\ requests.submit = 0
        /\ requests.confirm = 0
        /\ records = <<>>
        /\ \A i \in 1..Len(stack) :
              stack[i].fn \notin {"place_buy_order", "place_sell_order", "log_trade"}

C13_Witness ==
    /\ Done /\ SignalIs({"CLOSED"})
    /\ PositionIs({10}) /\ ReachedBranch
    /\ markers = <<"BEGIN", "END">>
    /\ requests.submit = 0 /\ records = <<>>
    /\ \A i \in 1..Len(notified) : notified[i].severity = "INFO"

\* the cash the buy branch of the run has read
CashIs(amounts) == "available_cash" \in DOMAIN run /\ run.available_cash \in amounts

\* the configured commission schedule is one of the two supported ones
ScheduleSupported ==
    "commission_type" \in DOMAIN run => Upper(run.commission_type) \in {"TIERED", "FIXED"}

\* the submission POST is about to be issued
Submitting == At("_place_market_order", "start")

\* C14: with signal BULLISH (and a supported commission schedule), a buy
\* order is submitted if and only if the available cash is strictly greater
\* than 5.00; what is submitted is a BUY whose cashQty is the available cash
\* minus the commission estimate for cash / price shares at that price minus
\* 1.00; with cash at or below 5.00 no order is submitted and no Trade
\* Record is logged.
C14_BuysExactlyAboveThreshold ==
    SignalIs({"BULLISH"}) =>
        /\ (requests.submit > 0 \/ Submitting) =>
              "available_cash" \in DOMAIN run /\ run.available_cash > 500
        /\ (Done /\ "available_cash" \in DOMAIN run /\ run.available_cash > 500
                  /\ ScheduleSupported) => requests.submit > 0
        /\ Submitting =>
              LET order == Top.args.payload[1]
                  shares == [num |-> run.available_cash, den |-> run.price]
              IN /\ Len(Top.args.payload) = 1
                 /\ order.side = "BUY"
                 /\ \E commission \in get_ibkr_commission(shares, run.price,
                                                          run.commission_type) :
                       /\ commission.kind = "value"
                       /\ order.cashQty = run.available_cash - commission.val - 100
        /\ (\E cash \in 0..500 : CashIs({cash})) =>
              /\ requests.submit = 0
              /\ records = <<>>
              /\ ~Submitting

C14_Witness ==
    /\ Done /\ SignalIs({"BULLISH"}) /\ CashIs({100000})
    /\ run.price = 5000 /\ run.commission_type = "TIERED"
    /\ requests.submit = 1
    /\ Len(records) = 1 /\ records[1].Action = "Buy"
    /\ records[1].DollarAmount = 99865

\* C15 (as claimed): with signal BEARISH or NEUTRAL and a position > 0,
\* exactly one share-quantity SELL order is submitted, for the full
\* position; with a position <= 0 no order is submitted and no Trade Record
\* is logged.
C15_SellsFullPositionOnce ==
    SignalIs({"BEARISH", "NEUTRAL"}) =>
        /\ Submitting =>
              /\ Len(Top.args.payload) = 1
              /\ Top.args.payload[1].side = "SELL"
              /\ Top.args.payload[1].quantity = run.current_position
              /\ run.current_position > 0
        /\ (Done /\ ReachedBranch /\ run.current_position > 0)
              => requests.submit = 1
        /\ (\E position \in -10..0 : PositionIs({position})) =>
              /\ requests.submit = 0
              /\ records = <<>>

\* what does hold of the sell branch: one place_sell_order call for the
\* full position, whose submission POST is repeated only after a failure
C15_SellsFullPosition ==
    SignalIs({"BEARISH", "NEUTRAL"}) =>
        /\ Submitting =>
              /\ Len(Top.args.payload) = 1
              /\ Top.args.payload[1].side = "SELL"
              /\ Top.args.payload[1].quantity = run.current_position
              /\ run.current_position > 0
        /\ (Done /\ ReachedBranch /\ run.current_position > 0)
              => /\ requests.submit >= 1
                 /\ requests.submit <= 1 + (MaxFaults - faultsLeft)
        /\ (\E position \in -10..0 : PositionIs({position})) =>
              /\ requests.submit = 0
              /\ records = <<>>

\* the TRADE notifications sent so far
TradeNotifications == { i \in 1..Len(notified) : notified[i].severity = "TRADE" }

\* the order placement of the run ended in an OrderRejectionError
OrderRejected ==
    \/ ret.kind = "exc" /\ ret.exc.type = "OrderRejectionError"
    \/ \E i \in 1..Len(notified) :
          /\ notified[i].severity = "ERROR"
          /\ notified[i].message[2].type = "OrderRejectionError"

\* C16: every Trade Record appended to the trade history has an order id
\* that is neither null nor empty (one is synthesized when the protocol
\* supplied none), and in a run whose order was rejected no Trade Record is
\* logged, no trade is notified and no order id is produced or synthesized.
C16_LoggedOrderIdNeverNull ==
    /\ \A i \in 1..Len(records) :
          /\ records[i].OrderId # None
          /\ Truthy(records[i].OrderId)
    /\ OrderRejected =>
          /\ records = <<>>
          /\ TradeNotifications = {}
          /\ "order_id" \notin DOMAIN run
          /\ \A i \in 1..Len(stack) : stack[i].fn # "log_trade"

C16_Witness ==
    /\ Done /\ ~OrderRejected
    /\ "order_id" \in DOMAIN run /\ run.order_id = ""
    /\ Len(records) = 1
    /\ records[1].OrderId = SyntheticOrderId(Now)

\* the order id the placement call of the run returned came from the gateway
GatewayOrderId == "order_id" \in DOMAIN run /\ Truthy(run.order_id)

\* C17 (as claimed): a Trade Record is logged only after the protocol has
\* obtained an order id from the gateway; when the protocol ends without
\* one, no order id is produced and no Trade Record is logged.
C17_LoggedOnlyWithGatewayId ==
    /\ records # <<>> => GatewayOrderId
    /\ TradeNotifications # {} => GatewayOrderId

\* C17 (amended): a Trade Record is logged only after the placement call
\* has returned without raising, whether or not the gateway supplied an
\* order id; when the protocol ended without one, log_trade produces an id
\* from the timestamp and the record and the trade notification carry it.
C17_LoggedAfterPlacementReturns ==
    /\ (\/ records # <<>>
        \/ TradeNotifications # {}
        \/ \E i \in 1..Len(stack) : stack[i].fn = "log_trade")
          => "order_id" \in DOMAIN run
    /\ Len(records) <= 1
    /\ \A i \in 1..Len(records) :
          records[i].OrderId = IF Truthy(run.order_id) THEN run.order_id
                               ELSE SyntheticOrderId(Now)
    /\ \A i \in TradeNotifications :
          notified[i].message.order_id = IF run.order_id = None
                                         THEN SyntheticOrderId(Now)
                                         ELSE run.order_id

C17_Witness ==
    /\ Done
    /\ "order_id" \in DOMAIN run /\ run.order_id = None
    /\ requests.submit = 1 /\ requests.confirm = 0
    /\ Len(records) = 1
    /\ records[1].OrderId = SyntheticOrderId(Now)
    /\ \E i \in TradeNotifications :
          notified[i].message.order_id = SyntheticOrderId(Now)

----------------------------------------------------------------------------
(* SpecCommission: Trader._get_ibkr_commission called once, on a share      *)
(* count, a price and a schedule name drawn from the sets below             *)

\* share counts: whole ones (0, below, at and above the per-share minimum of
\* either schedule) and two quotients cash / price as the buy branch passes
Quantities ==
    { [num |-> shares, den |-> 1] :
        shares \in {0, 1, 3, 10, 99, 100, 101, 110, 200, 201, 1000, 2857} }
    \cup { [num |-> 100000, den |-> 5000], [num |-> 2501, den |-> 5000] }

\* prices per share, in cents
Prices == {50, 500, 1000, 5000}

CommissionCalls ==
    { Frame("_get_ibkr_commission",
            [quantity |-> q, price |-> p, commission_type |-> t]) :
        q \in Quantities, p \in Prices, t \in CommissionTypes \cup {"tiered"} }

\* commission = self._get_ibkr_commission(quantity, price, COMMISSION_TYPE)
GetIbkrCommission ==
    /\ At("_get_ibkr_commission", "start") /\ ret.kind = "none"
    /\ \E outcome \in get_ibkr_commission(Top.args.quantity, Top.args.price,
                                          Top.args.commission_type) :
          ret' = outcome
    /\ stack' = Pop
    /\ UNCHANGED <<slept, cfg, calls, gatewayVars, envVars, traderVars>>

InitCommission ==
    /\ \E call \in CommissionCalls :
          /\ stack = <<call>>
          /\ before = call.args
    /\ ret = NoRet
    /\ slept = <<>>
    /\ cfg = [max_attempts |-> MAX_RETRY_ATTEMPTS, delay |-> RETRY_DELAY,
              backoff |-> RETRY_BACKOFF, no_retry_exceptions |-> {}]
    /\ calls = <<>>
    /\ NoGateway

NextCommission == GetIbkrCommission

SpecCommission == InitCommission /\ [][NextCommission]_vars

\* the exact estimate of a schedule, in units of 1 / (100 * den) cent, said
\* by cases: the per-share amount or the minimum, whichever is larger, unless
\* the tiered cap of 1 % of the trade value is smaller still
ExactEstimate(quantity, price, schedule) ==
    LET unit == 100 * quantity.den
        perShare == quantity.num * (IF schedule = "TIERED" THEN 35 ELSE 50)
        minimum == (IF schedule = "TIERED" THEN 35 ELSE 100) * unit
        floored == IF perShare >= minimum THEN perShare ELSE minimum
        cap == quantity.num * price
    IN IF schedule = "TIERED" /\ cap <= floored THEN cap ELSE floored

\* c cents is x / unit cents rounded to the cent
RoundedToCent(c, x, unit) == 2 * c * unit - unit <= 2 * x /\ 2 * x <= 2 * c * unit + unit

\* C21: the commission estimate, in cents: the tiered schedule yields
\* min(max(shares * 0.0035, 0.35), 1 % of shares * price) and the flat
\* schedule max(shares * 0.005, 1.00), each rounded to 2 decimals; tiered
\* for 1000 shares at $10 is $3.50 and flat for 10 shares at $5 is $1.00.
C21_CommissionEstimate ==
    (Done /\ Upper(before.commission_type) \in {"TIERED", "FIXED"}) =>
        /\ ret.kind = "value"
        /\ RoundedToCent(ret.val,
                         ExactEstimate(before.quantity, before.price,
                                       Upper(before.commission_type)),
                         100 * before.quantity.den)
        /\ (before = [quantity |-> [num |-> 1000, den |-> 1], price |-> 1000,
                      commission_type |-> "TIERED"]) => ret.val = 350
        /\ (before = [quantity |-> [num |-> 10, den |-> 1], price |-> 500,
                      commission_type |-> "fixed"]) => ret.val = 100

C21_Witness ==
    /\ Done
    /\ before = [quantity |-> [num |-> 1000, den |-> 1], price |-> 1000,
                 commission_type |-> "TIERED"]
    /\ ret = Value(350)

\* the buy branch of the run came to estimate the commission under a
\* schedule name that is neither of the two supported ones, in any case
UnsupportedSchedule ==
    /\ "commission_type" \in DOMAIN run
    /\ run.commission_type \notin {"TIERED", "tiered", "FIXED", "fixed"}

\* C22: a configured commission schedule name other than TIERED and FIXED
\* (compared case-insensitively) is rejected as a configuration error in the
\* buy branch before any order is submitted: no submission POST is issued,
\* no Trade Record is logged, the error is not retried (it reaches the
\* executor at once, without a sleep), and the run ends through the
\* top-level handler; a supported name in lower case is not rejected.
C22_UnsupportedScheduleRejected ==
    /\ UnsupportedSchedule =>
          /\ requests.submit = 0 /\ requests.confirm = 0
          /\ records = <<>> /\ TradeNotifications = {}
          /\ slept = <<>>
          /\ Running => /\ ExceptionInExecutor
                        /\ ret = InvalidCommissionType
          /\ Done => /\ notified[Len(notified)] =
                           Notification("ERROR", <<"Trade execution failed",
                                                   InvalidCommissionType.exc>>)
                     /\ markers = <<"BEGIN", "END">>
                     /\ ret = Value(None)
    /\ ("commission_type" \in DOMAIN run /\ ~UnsupportedSchedule) =>
          /\ ret # InvalidCommissionType
          /\ \A i \in 1..Len(notified) :
                notified[i].severity = "ERROR"
                   => notified[i].message[2] # InvalidCommissionType.exc

C22_Witness ==
    /\ Done /\ SignalIs({"BULLISH"}) /\ CashIs({100000})
    /\ run.commission_type = "FLAT"
    /\ requests.submit = 0 /\ records = <<>>
    /\ notified[Len(notified)].severity = "ERROR"
    /\ notified[Len(notified)].message[2].type = "ValueError"
    /\ markers = <<"BEGIN", "END">>

\* the gateway answered the last submission POST with an order id at once:
\* a list whose first element carries an order id and no confirmation id
ImmediateOrderId ==
    /\ lastSubmit.shape = "list" /\ lastSubmit.n > 0
    /\ Truthy(lastSubmit.order_id)
    /\ ~Truthy(lastSubmit.id)

\* no request and no storage access of the run has failed
NothingFailed == faultsLeft = MaxFaults

RaisingReads ==
    {"get_account_id", "get_available_cash", "get_account_balance",
     "get_contract_id", "get_price"}

\* a read operation has just raised because its response lacks the field
MissingFieldDetected(op) ==
    Answered(op) /\ NeededFieldAbsent(op) /\ ret.kind = "exc"

\* the last read call has ended in a failure whose last response lacked
\* the field
FailedOnMissingField(op) ==
    /\ Done /\ ret.kind = "exc"
    /\ lastRead.op = op /\ lastRead.data.shape \in {"dict", "list"}
    /\ NeededFieldAbsent(op)

\* C24 (as claimed): a response that lacks a required field is not retried:
\* the read operation that detects it has issued exactly one GET when the
\* failure propagates, and no sleep occurs.
C24_MissingFieldNotRetried ==
    \A op \in RaisingReads :
        /\ MissingFieldDetected(op) =>
              /\ Top.attempts = 0
              /\ NotRetried(ret.exc, Top.no_retry_exceptions)
        /\ FailedOnMissingField(op) => slept[1] = <<>>

\* C24 (amended): the error of a missing field is a plain Exception, which
\* the @retry wrapper of the read operation retries like any other failure:
\* the GET is repeated, with a sleep before each repetition, until
\* MAX_RETRY_ATTEMPTS attempts have failed; only then does the failure
\* propagate, as the wrapper's "failed after 3 retries".
C24_MissingFieldRetried ==
    \A op \in RaisingReads :
        /\ MissingFieldDetected(op) =>
              /\ ret.exc.type = "Exception"
              /\ ~NotRetried(ret.exc, Top.no_retry_exceptions)
              /\ Top.attempts < MAX_RETRY_ATTEMPTS
              /\ Len(slept[Len(stack)]) = Top.attempts
        /\ FailedOnMissingField(op) =>
              /\ ret.exc = RetriesExhausted(op, MAX_RETRY_ATTEMPTS)
              /\ Len(slept[1]) = MAX_RETRY_ATTEMPTS - 1

C24_Witness ==
    /\ FailedOnMissingField("get_available_cash")
    /\ ret.exc = RetriesExhausted("get_available_cash", 3)
    /\ slept[1] = <<2, 4>>

\* the errors a delivery to the sink can end in
SinkErrors == {"RequestException", "ClientError"}

\* the ERROR notifications sent so far
ErrorNotifications == { i \in 1..Len(notified) : notified[i].severity = "ERROR" }

\* the run came to size an order: BULLISH with cash above the threshold and
\* a supported schedule, or BEARISH / NEUTRAL with a position held
OrderDue ==
    \/ /\ SignalIs({"BULLISH"})
       /\ "available_cash" \in DOMAIN run /\ run.available_cash > 500
       /\ ~UnsupportedSchedule
    \/ /\ SignalIs({"BEARISH", "NEUTRAL"})
       /\ "current_position" \in DOMAIN run /\ run.current_position > 0

\* C25: a delivery failure in the notification sink never aborts the trading
\* flow: no exception of the sink reaches the executor or any caller, and a
\* run in which deliveries fail (and nothing else does) issues the gateway
\* calls and places and logs the order that the run's signal, cash and
\* position call for, as a run whose deliveries succeed does.
C25_DeliveryFailureNeverAborts ==
    /\ ret.kind = "exc" => ret.exc.type \notin SinkErrors
    /\ \A i \in ErrorNotifications : notified[i].message[2].type \notin SinkErrors
    /\ (Done /\ NothingFailed) =>
          /\ requests.auth = 1 /\ requests.suppress = 1 /\ requests.accounts = 1
          /\ "signal" \in DOMAIN run
          /\ ErrorNotifications # {} => UnsupportedSchedule
          /\ ~UnsupportedSchedule =>
                /\ ReachedBranch
                /\ Len(notified) = 2 + Len(records)
                /\ IF OrderDue
                   THEN requests.submit = 1 /\ Len(records) = 1
                   ELSE requests.submit = 0 /\ records = <<>>

C25_Witness ==
    /\ Done /\ NothingFailed /\ deliveryFailed
    /\ SignalIs({"BEARISH"}) /\ PositionIs({10})
    /\ requests.submit = 1
    /\ Len(records) = 1 /\ records[1].Action = "Sell"
    /\ Len(notified) = 3

\* log_trade has been called on the Trade the run created
TradeLogged == "trade" \in DOMAIN run /\ "created" \in DOMAIN run

\* log_trade has raised the error of the bucket lookup
BucketLookupFailed ==
    \/ ret.kind = "exc" /\ ret.exc.type = "EndpointConnectionError"
    \/ \E i \in ErrorNotifications :
          notified[i].message[2].type = "EndpointConnectionError"

\* C26 (as claimed): a Trade Record is never mutated after creation:
\* log_trade leaves every field of the Trade it is given (account id,
\* action, symbol, dollar amount, shares, order id, timestamp) equal to its
\* value at construction.
C26_TradeNeverMutated ==
    TradeLogged => run.trade = run.created

\* C26 (amended): log_trade leaves account id, action, symbol, dollar
\* amount, shares and timestamp of the Trade as constructed; the order id
\* is left as constructed unless it is None, in which case log_trade
\* assigns the id made from the timestamp (and does so only once the trade
\* bucket has been looked up).
C26_OnlyMissingOrderIdAssigned ==
    TradeLogged =>
        /\ \A field \in {"account_id", "action", "symbol", "dollar_amount",
                         "shares", "timestamp"} :
              run.trade[field] = run.created[field]
        /\ run.created.order_id # None => run.trade.order_id = run.created.order_id
        /\ run.created.order_id = None =>
              IF BucketLookupFailed
              THEN run.trade.order_id = None
              ELSE run.trade.order_id = SyntheticOrderId(run.created.timestamp)

C26_Witness ==
    /\ Done /\ TradeLogged
    /\ run.created.order_id = None
    /\ run.trade.order_id = SyntheticOrderId(Now)
    /\ run.trade.action = "Sell"

----------------------------------------------------------------------------
(* SpecLog: TradeLogger.log_trade called once, on a Trade drawn from the    *)
(* set below                                                                *)

\* the dates (%Y%m%d) and times (%H%M%S) of the timestamps
Dates == {"20260102", "19991231"}
Times == {"030405", "235959", "000000"}

\* the trades handed to log_trade: with a gateway order id, with an empty
\* one and with none
LoggedTrades ==
    { [account_id |-> "U1", action |-> action, symbol |-> SYMBOL,
       dollar_amount |-> 99865, shares |-> 2000, order_id |-> order_id,
       timestamp |-> [date |-> date, time |-> time]] :
        action \in {"Buy", "Sell"}, order_id \in {None, "", "o1"},
        date \in Dates, time \in Times }

InitLog ==
    /\ \E trade \in LoggedTrades :
          /\ stack = <<Frame("log_trade", [trade |-> trade])>>
          /\ before = [trade |-> trade]
    /\ ret = NoRet
    /\ slept = <<>>
    /\ cfg = [max_attempts |-> MAX_RETRY_ATTEMPTS, delay |-> RETRY_DELAY,
              backoff |-> RETRY_BACKOFF, no_retry_exceptions |-> {}]
    /\ calls = <<>>
    /\ NoGateway

NextLog == log_trade

SpecLog == InitLog /\ [][NextLog]_vars

\* the id is ORD_, the date, `separator` and the time of the timestamp
MadeFromTimestamp(id, timestamp, separator) ==
    /\ timestamp.date \in Dates /\ timestamp.time \in Times
    /\ Len(timestamp.date) = 8 /\ Len(timestamp.time) = 6
    /\ id = "ORD_" \o timestamp.date \o separator \o timestamp.time
    /\ Len(id) = 4 + 8 + Len(separator) + 6

\* every order id written for a trade that came without a gateway order id
\* is made from the timestamp with the separator
SynthesizedWith(separator) ==
    /\ \A i \in 1..Len(records) :
          ~Truthy(before.trade.order_id) =>
              MadeFromTimestamp(records[i].OrderId, before.trade.timestamp, separator)
    /\ (Done /\ ret.kind = "value" /\ before.trade.order_id = None) =>
          MadeFromTimestamp(ret.val, before.trade.timestamp, separator)

\* C27 (as claimed): when a Trade Record is logged without a gateway order
\* id, the synthesized order id consists of the prefix ORD_ followed by
\* exactly 14 digits (a compact timestamp) and nothing else.
C27_OrdAndFourteenDigits == SynthesizedWith("")

\* C27 (amended): the synthesized order id is ORD_, the 8 digits of the
\* date, an underscore and the 6 digits of the time (ORD_YYYYMMDD_HHMMSS,
\* 19 characters), in the logged row and in the id log_trade returns.
C27_OrdDateUnderscoreTime == SynthesizedWith("_")

C27_Witness ==
    /\ Done /\ before.trade.order_id = None
    /\ before.trade.timestamp = [date |-> "19991231", time |-> "235959"]
    /\ Len(records) = 1
    /\ records[1].OrderId = "ORD_19991231_235959"
    /\ ret = Value("ORD_19991231_235959")

\* an OrderRejectionError is being raised or has ended the call
RejectionRaised == ret.kind = "exc" /\ ret.exc.type = "OrderRejectionError"

\* the response that carried the `error` field: the confirmation response
\* when there is one, else the submission response
RejectingResponse ==
    IF lastConfirm.shape = "dict" /\ lastConfirm.error # Absent
    THEN lastConfirm ELSE lastSubmit

\* the response nests a non-empty rejections list under cqe.post_payload
HasRejections(response) ==
    /\ response.cqe.tag = "post_payload"
    /\ response.cqe.rejections.tag = "list"
    /\ Len(response.cqe.rejections.items) > 0

\* C28: when a response carries a top-level error field, the message of the
\* OrderRejectionError raised is the first entry of the rejections list
\* nested under cqe.post_payload if that list is present and non-empty, and
\* the top-level error message otherwise; in both cases the error carries
\* the cqe block of the response (an empty one when the response has none)
\* as its rejection details, for submission and confirmation responses alike.
C28_RejectionMessageAndDetails ==
    RejectionRaised =>
        LET response == RejectingResponse IN
        /\ response.shape = "dict" /\ response.error # Absent
        /\ ret.exc.message = IF HasRejections(response)
                             THEN response.cqe.rejections.items[1]
                             ELSE response.error
        /\ ret.exc.rejection_details = IF response.cqe.tag = "absent"
                                       THEN [tag |-> "empty"]
                                       ELSE response.cqe

C28_Witness ==
    /\ Done /\ RejectionRaised
    /\ lastConfirm.shape = "dict" /\ HasRejections(lastConfirm)
    /\ ret.exc.message = "reason1"
    /\ ret.exc.rejection_details = lastConfirm.cqe

\* every invocation of the operation so far failed with a retryable error
OnlyRetryableFailures == \A i \in 1..Len(calls) : FailedRetryable(i)

\* C29: if all max_attempts attempts of the wrapped operation fail with
\* retryable errors, the retry wrapper has invoked the operation exactly
\* max_attempts times and slept exactly max_attempts - 1 times: there is no
\* sleep after the final failed attempt and no invocation after the
\* terminal failure (and the terminal failure comes no earlier).
C29_AttemptsAndSleepsOnExhaustion ==
    /\ Len(calls) <= cfg.max_attempts
    /\ Len(sleeps) <= cfg.max_attempts - 1
    /\ OnlyRetryableFailures =>
          /\ Len(sleeps) <= Len(calls)
          /\ Len(calls) < cfg.max_attempts => Running
          /\ Done => /\ Len(calls) = cfg.max_attempts
                     /\ Len(sleeps) = cfg.max_attempts - 1
                     /\ ret.kind = "exc"

C29_Witness ==
    /\ Done /\ OnlyRetryableFailures
    /\ cfg.max_attempts = 4 /\ cfg.delay = 1 /\ cfg.backoff = 2
    /\ Len(calls) = 4
    /\ sleeps = <<1, 2, 4>>

\* the gateway answered the last suppression POST, and with this status
SuppressionStatusIs(statuses) ==
    lastSuppress.shape = "dict" /\ lastSuppress.status \in statuses

\* C30: the warning-suppression registration succeeds only if the status
\* the gateway reports equals "submitted": the registration call returns,
\* and the run goes on to its BEGIN line and to any submission POST, only
\* after that status; with any other status (a missing one included) on
\* the last of the MAX_RETRY_ATTEMPTS attempts, initialize() raises and the
\* executor issues no order-submission POST in that run.
C30_SuppressionNeedsSubmitted ==
    /\ (/\ Running /\ Top.fn = "wrapper"
        /\ Top.func = "_suppress_order_reply_messages" /\ ret.kind = "value")
          => SuppressionStatusIs({"submitted"})
    /\ (requests.submit > 0 \/ Submitting \/ markers \notin {<<>>, <<"END">>})
          => SuppressionStatusIs({"submitted"})
    /\ SuppressionStatusIs({"failed", Absent}) =>
          /\ requests.submit = 0 /\ ~Submitting
          /\ "signal" \notin DOMAIN run
          /\ At("initialize", "suppress") => ret.kind # "value"
          /\ Done =>
                /\ requests.suppress = MAX_RETRY_ATTEMPTS
                /\ markers = <<"END">>
                /\ notified = <<Notification("ERROR",
                       <<"Trade execution failed",
                         RetriesExhausted("_suppress_order_reply_messages",
                                          MAX_RETRY_ATTEMPTS)>>)>>

C30_Witness ==
    /\ Done /\ SuppressionStatusIs({Absent})
    /\ requests.auth = 1 /\ requests.suppress = 3 /\ requests.submit = 0
    /\ Len(notified) = 1 /\ notified[1].severity = "ERROR"

----------------------------------------------------------------------------
(* Claims about the order payload and the response shapes (SpecOrder) *)

\* the method the client's user called: the outermost retry wrapper
CalledMethod == stack[1].func

\* the sizing fields an order carries
SizingFields(order) == DOMAIN order \cap {"quantity", "cashQty"}

\* C31: every order payload sent to the gateway contains exactly one order
\* with exactly one sizing field: a BUY order carries cashQty and no
\* quantity, a SELL order carries quantity and no cashQty; every order is a
\* market order with tif DAY, exchange SMART and currency USD.  (The payload
\* is the one _place_market_order is about to POST.)
C31_OnePayloadOneSizingField ==
    Submitting =>
        LET orders == Top.args.payload
            order == orders[1]
        IN /\ Len(orders) = 1
           /\ DOMAIN order = {"conid", "secType", "orderType", "side", "tif",
                              "exchange", "currency"} \cup SizingFields(order)
           /\ order.side = IF CalledMethod = "place_buy_order" THEN "BUY" ELSE "SELL"
           /\ SizingFields(order) = IF order.side = "BUY" THEN {"cashQty"}
                                    ELSE {"quantity"}
           /\ order.orderType = "MKT" /\ order.secType = "STK"
           /\ order.tif = "DAY" /\ order.exchange = "SMART"
           /\ order.currency = "USD"

\* a buy payload is about to be posted for the second time
C31_Witness ==
    /\ Submitting /\ requests.submit = 1
    /\ CalledMethod = "place_buy_order"
    /\ Top.args.payload[1].cashQty = 100

\* the order id a response carries, whatever its shape: a field of the
\* object, or of element 0 of the list
CarriedOrderId(response) ==
    IF /\ \/ response.shape = "dict" /\ response.error = Absent
          \/ response.shape = "list" /\ response.n > 0
       /\ response.order_id # Absent
    THEN response.order_id ELSE None

\* the call returned normally, on a submission answered without a reply POST
ReturnedAfterSubmission == Done /\ ret.kind = "value" /\ lastConfirm = NoResponse

\* the call returned normally after a reply POST
ReturnedAfterConfirmation ==
    Done /\ ret.kind = "value" /\ lastConfirm \notin {NoResponse, TransportFailure}

\* an order id carried by a submission response of either shape is returned
C32_SubmissionShapesAlike ==
    (ReturnedAfterSubmission /\ CarriedOrderId(lastSubmit) # None) =>
        ret.val = CarriedOrderId(lastSubmit)

\* an order id carried by a confirmation response of either shape is
\* returned when the submission response carried none
C32_ConfirmationShapesAlike ==
    (ReturnedAfterConfirmation /\ SubmittedOrderId = None
        /\ CarriedOrderId(lastConfirm) # None) =>
        ret.val = CarriedOrderId(lastConfirm)

\* C32 (as claimed): both response shapes are normalized the same way: an
\* order id carried by an object-shaped response without an `error` field
\* is recognized as terminal success exactly as one carried by element 0 of
\* a list-shaped response, for the submission response and for the
\* confirmation response.
C32_BothShapesNormalized ==
    C32_SubmissionShapesAlike /\ C32_ConfirmationShapesAlike

\* the latest order-submission POST was answered with a non-error response
\* that carries an order id or a confirmation id
SubmissionAccepted ==
    /\ lastSubmit \notin {NoResponse, TransportFailure}
    /\ ~IsRejection(lastSubmit)
    /\ Truthy(InitialOrderId(lastSubmit)) \/ NeedsConfirmation(lastSubmit)

\* C33 (as claimed): within one place_buy_order / place_sell_order call,
\* once an order-submission POST has been answered with a non-error
\* response (an order id or a confirmation id), no second order-submission
\* POST is issued, even if the following confirmation POSTs fail in
\* transport until their retries are exhausted.  (Stated on the moment a
\* submission POST is about to be issued: the one before it, if any, was
\* not accepted.)
C33_NoResubmissionAfterAcceptance == Submitting => ~SubmissionAccepted

----------------------------------------------------------------------------
(* Claims about the order of a run and its end (SpecTrade) *)

\* the run has assigned the local `name`: the call that computes it returned
Assigned(name) == name \in DOMAIN run

\* get_account_id returned to the executor, which logged BEGIN at once
AccountResolved == markers # <<>> /\ markers[1] = "BEGIN"

\* the eight steps before the branch have all succeeded
PrerequisitesMet ==
    /\ ReportedAuthenticated
    /\ SuppressionStatusIs({"submitted"})
    /\ AccountResolved
    /\ {"signal", "contract_id", "price", "current_position",
        "account_balance"} \subseteq DOMAIN run

\* C34: in every run of execute_trade an order-submission POST is issued
\* only after auth check, warning suppression, account id resolution,
\* signal fetch, contract id lookup, price fetch, position fetch and
\* balance fetch have succeeded earlier in the run, in this order (each
\* step has succeeded only if the one before it has); if any of them
\* fails, no order is submitted.
C34_PrerequisitesBeforeSubmission ==
    /\ (requests.submit > 0 \/ Submitting) => PrerequisitesMet
    /\ lastSuppress.shape # "none" => ReportedAuthenticated
    /\ requests.accounts > 0 => SuppressionStatusIs({"submitted"})
    /\ AccountResolved => requests.accounts > 0
    /\ Assigned("signal") => AccountResolved
    /\ Assigned("contract_id") => Assigned("signal")
    /\ Assigned("price") => Assigned("contract_id")
    /\ Assigned("current_position") => Assigned("price")
    /\ Assigned("account_balance") => Assigned("current_position")
    /\ (Done /\ ~PrerequisitesMet) => requests.submit = 0 /\ records = <<>>

\* a sell order is about to be submitted in a run whose first auth check
\* failed and was repeated
C34_Witness ==
    /\ Submitting /\ requests.submit = 0
    /\ PrerequisitesMet /\ SignalIs({"BEARISH"})
    /\ requests.auth = 2 /\ requests.suppress = 1 /\ requests.accounts = 1

\* a call of place_buy_order or place_sell_order is in progress: its retry
\* wrapper is on the stack
OrderCalls ==
    { i \in DOMAIN stack : /\ stack[i].fn = "wrapper"
                           /\ stack[i].func \in {"place_buy_order", "place_sell_order"} }

InOrderCall == OrderCalls # {}

\* the executor's handler calls place_buy_order or place_sell_order
OrderCallBegins == ~InOrderCall /\ InOrderCall'

\* C35: each run of execute_trade calls at most one of place_buy_order and
\* place_sell_order, at most once, and logs at most one Trade Record; a buy
\* and a sell are never both attempted in the same run.  (When a call
\* begins, the run has issued no submission POST and no earlier call has
\* returned; every call issues at least one, so no call follows another;
\* all payloads of the run are those of the one method called.)
C35_AtMostOneOrderCall ==
    /\ [][OrderCallBegins =>
             /\ requests.submit = 0 /\ requests.confirm = 0
             /\ ~Assigned("order_id") /\ records = <<>>]_vars
    /\ [][(InOrderCall /\ ~InOrderCall') => requests'.submit > 0]_vars
    /\ [](Cardinality(OrderCalls) <= 1)
    /\ [](Len(records) <= 1)
    /\ [](Submitting =>
             Top.args.payload[1].side =
                IF SignalIs({"BULLISH"}) THEN "BUY" ELSE "SELL")
    /\ []((requests.submit > 0 \/ InOrderCall) =>
             SignalIs({"BULLISH", "BEARISH", "NEUTRAL"}))

\* a run that sold, after a first submission that failed, and logged the
\* one trade
C35_Witness ==
    /\ Done /\ SignalIs({"NEUTRAL"})
    /\ requests.submit = 2
    /\ Len(records) = 1 /\ records[1].Action = "Sell"

\* C36 (as claimed): in every run of execute_trade the END marker is the
\* last log event of the run and is preceded by a BEGIN marker emitted
\* earlier in the same run, also in runs that fail during session
\* initialization or account id resolution.
C36_EndPrecededByBegin ==
    /\ Running => Ends = 0
    /\ Done => markers = <<"BEGIN", "END">>

\* C36 (amended): END is logged exactly once, as the last event of every
\* run; BEGIN precedes it exactly in the runs in which initialize() and
\* get_account_id() succeeded; a run that fails in either of them logs END
\* alone.
C36_EndLastBeginAfterAccountId ==
    /\ Running => Ends = 0 /\ markers \in {<<>>, <<"BEGIN">>}
    /\ Done => /\ markers \in {<<"BEGIN", "END">>, <<"END">>}
               /\ markers = <<"BEGIN", "END">> <=>
                     /\ ReportedAuthenticated
                     /\ SuppressionStatusIs({"submitted"})
                     /\ Truthy(client_account_id)
    /\ AccountResolved => Truthy(client_account_id)

\* a run that failed in account id resolution, after a session
\* initialization that succeeded
C36_Witness ==
    /\ Done /\ markers = <<"END">>
    /\ ReportedAuthenticated /\ SuppressionStatusIs({"submitted"})
    /\ requests.accounts = MAX_RETRY_ATTEMPTS
    /\ ~Truthy(client_account_id)
    /\ Len(notified) = 1 /\ notified[1].severity = "ERROR"

\* place_buy_order / place_sell_order returned normally to its handler
OrderPlaced == Assigned("order_id")

\* the notifications of the run about its order: the trade notification
\* and the error notification
OrderNotifications == TradeNotifications \cup ErrorNotifications

\* C37 (as claimed): for every order that was placed (place_buy_order /
\* place_sell_order returned normally) the operator is sent a notification
\* about it in the same run, the trade notification or an error
\* notification, also when reading or writing the persisted trade history
\* fails.
C37_PlacedOrderAlwaysNotified ==
    (Done /\ OrderPlaced) => OrderNotifications # {}

\* what holds: a placed order goes without notification only in a run whose
\* trade was handed to log_trade and did not reach the workbook
C37_SilentOnlyWhenHistoryFails ==
    (Done /\ OrderPlaced /\ OrderNotifications = {}) =>
        /\ TradeLogged /\ records = <<>>
        /\ faultsLeft < MaxFaults

----------------------------------------------------------------------------
(* SpecBuy: Trader._handle_bullish_signal from the moment get_available_cash *)
(* has returned to it, for an available cash and a price drawn from the sets *)
(* below, against a gateway and a store that give at most MaxBuyFaults       *)
(* failed answers                                                            *)

MaxBuyFaults == 1

\* available cash, in cents: below, at and just above the threshold of 5.00,
\* and larger amounts
BuyCash == {200, 500, 501, 502, 1000, 100000}

\* prices per share, in cents, from one cent up
BuyPrices == {1, 2, 700, 5000}

InitBuy ==
    /\ \E price \in BuyPrices, available_cash \in BuyCash :
          /\ stack = <<[fn |-> "_handle_bullish_signal", pc |-> "call",
                        args |-> [account_id |-> "U1", contract_id |-> 1,
                                  price |-> price]]>>
          /\ ret = Value(available_cash)
          /\ run = [started |-> TRUE, price |-> price]
    /\ slept = <<>>
    /\ cfg = [max_attempts |-> MAX_RETRY_ATTEMPTS, delay |-> RETRY_DELAY,
              backoff |-> RETRY_BACKOFF, no_retry_exceptions |-> {}]
    /\ calls = <<>>
    /\ ncalls = 1
    /\ requests = [submit |-> 0, confirm |-> 0, auth |-> 0, suppress |-> 0,
                   accounts |-> 0]
    /\ lastSubmit = NoResponse
    /\ lastConfirm = NoResponse
    /\ rounds = 0
    /\ lastAuth = NoResponse
    /\ lastSuppress = NoResponse
    /\ faultsLeft = MaxBuyFaults
    /\ before = [ok |-> FALSE, requests |-> requests]
    /\ client_account_id = "U1"
    /\ trader_account_id = "U1"
    /\ markers = <<"BEGIN">>
    /\ notified = <<>>
    /\ deliveryFailed = FALSE
    /\ lastRead = NoRead
    /\ records = <<>>

NextBuy ==
    \/ handle_bullish_signal
    \/ WrapperLoop \/ WrapperReturn \/ WrapperExcept
    \/ place_buy_order
    \/ PlaceMarketOrderPost \/ PlaceMarketOrderConfirmed \/ confirm_order
    \/ log_trade

SpecBuy == InitBuy /\ [][NextBuy]_vars

\* C38: whenever the buy branch submits an order (available cash > 5.00,
\* price >= 0.01, amounts in whole cents), the submitted cashQty is strictly
\* positive and strictly less than the available cash, under the TIERED and
\* under the FIXED commission schedule.
C38_CashQtyPositiveBelowCash ==
    Submitting =>
        LET order == Top.args.payload[1] IN
        /\ order.side = "BUY"
        /\ Upper(run.commission_type) \in {"TIERED", "FIXED"}
        /\ order.cashQty > 0
        /\ order.cashQty < run.available_cash

\* 5.01 of cash at a price of one cent under the FIXED schedule: 501 shares,
\* a commission of 2.505 rounded to the cent, 1.50 or 1.51 submitted
C38_Witness ==
    /\ Submitting /\ CashIs({501}) /\ run.price = 1
    /\ Upper(run.commission_type) = "FIXED"
    /\ Top.args.payload[1].cashQty \in {150, 151}

----------------------------------------------------------------------------
(* Claims about the order id returned and the cost of a call (SpecOrder) *)

\* C39: when element 0 of the submission response carries both an order id
\* and a confirmation id, and the confirmation response also carries an
\* order id, the order id returned is the one of the submission response;
\* the confirmation's order id is returned only when the submission
\* response carried none.
C39_SubmissionOrderIdWins ==
    (ReturnedAfterConfirmation /\ CarriesConfirmationId) =>
        /\ SubmittedOrderId # None => ret.val = SubmittedOrderId
        /\ SubmittedOrderId = None => ret.val = ConfirmedOrderId
        /\ (ConfirmedOrderId # None /\ ret.val # SubmittedOrderId) =>
              SubmittedOrderId = None /\ ret.val = ConfirmedOrderId

\* the first submission was answered with order id o1 and confirmation id
\* c1, the reply with a list whose element 0 carries o2: o1 is returned
C39_Witness ==
    /\ Done /\ requests.submit = 1 /\ requests.confirm = 1
    /\ SubmittedOrderId = "o1" /\ CarriesConfirmationId
    /\ lastConfirm.shape = "list" /\ ConfirmedOrderId = "o2"
    /\ ret = Value("o1")

\* SpecOrder with every step of the call eventually taken: the code is
\* sequential, time.sleep returns, and every gateway request is eventually
\* answered or fails
SpecOrderLive == SpecOrder /\ WF_vars(NextOrder)

\* C40: every place_buy_order / place_sell_order call terminates for every
\* gateway behaviour (any mix of transport failures, rejections,
\* confirmation requests and successes), having issued at most
\* MAX_RETRY_ATTEMPTS^2 (9) order-submission POSTs and at most
\* MAX_RETRY_ATTEMPTS^3 (27) confirmation POSTs.
C40_TerminatesWithinBounds ==
    /\ [](/\ requests.submit <= Pow(MAX_RETRY_ATTEMPTS, 2)
          /\ requests.confirm <= Pow(MAX_RETRY_ATTEMPTS, 3)
          /\ requests.confirm <= MAX_RETRY_ATTEMPTS * requests.submit)
    /\ <>Done

\* the call that used up both bounds: every submission asked for a
\* confirmation and every reply POST failed
C40_Witness ==
    /\ Done /\ ret.kind = "exc"
    /\ requests.submit = 9 /\ requests.confirm = 27

====
